---- MODULE Spec2Model ----
(***************************************************************************)
(* Branch- and time-versioned graph store of Infrahub: branch query        *)
(* filters, attribute save / delete, diff, conflict detection and merge.   *)
(***************************************************************************)
EXTENDS Integers, Sequences, FiniteSets, TLC

(* ------------------------------------------------------------------ *)
(* Bounds                                                               *)
(* ------------------------------------------------------------------ *)
\* timestamps are 1..MaxTime; NULL stands for an absent `to`
MaxTime == 7
\* the store holds at most MaxEdges edges of nodes and attributes
MaxEdges == 11
\* and at most MaxRelEdges edges of relationships
MaxRelEdges == 9
\* the clock of the specification with node operations stops at MaxNodeTime
MaxNodeTime == 6
\* timestamps of the filter queries are 1..MaxQueryTime
MaxQueryTime == 3
\* the clock of the specification with concurrent merges stops at MaxMergeTime
MaxMergeTime == 9

NULL == 0
Times == 1..MaxTime

(* ------------------------------------------------------------------ *)
(* Names                                                                *)
(* ------------------------------------------------------------------ *)
default_branch == "main"
BranchB == "b2"
BranchNames == {default_branch, BranchB}

ACTIVE == "active"
DELETED == "deleted"
Statuses == {ACTIVE, DELETED}

ADDED == "added"
REMOVED == "removed"
UPDATED == "updated"

VARIABLES
    edges,          \* the edges of the graph, in creation order; an edge id is its index
    branched_from,  \* Branch.branched_from of the non-default branch, as persisted
    registry,       \* registry.branch[B].branched_from
    now,            \* the clock read by Timestamp()
    last,           \* the last operation, its inputs and its outcome
    q,              \* a filter query: its inputs and the results computed so far
    locks,          \* the named locks of the process: the caller holding each, or Free
    procs,          \* the concurrent callers: where each is in its call, and its locals
    roots,          \* the number of Root nodes in the database
    branch_nodes,   \* the Branch nodes in the database, in creation order
    diff            \* a Diff object: its window, what it has stored and its calls

vars == <<edges, branched_from, registry, now, last, q, locks, procs, roots, branch_nodes,
          diff>>

\* what an operation of a single caller leaves alone
conc == <<locks, procs>>

\* the database of the instance: its Root node and its branches
instance == <<roots, branch_nodes>>

\* the callers that run concurrently in the process
Callers == {"c1", "c2"}

\* the named locks; Free is a lock nobody holds
MERGE_LOCK == "merge"
INITIALIZATION_LOCK == "initialization"
LockNames == {MERGE_LOCK, INITIALIZATION_LOCK}
Free == "free"

\* a caller that is not in a call
Idle == [pc |-> "idle"]

\* no Diff object has been built
NoDiff == [state |-> "none"]

NoCallers ==
    /\ locks = [n \in LockNames |-> Free]
    /\ procs = [p \in Callers |-> Idle]

GLOBAL_BRANCH_NAME == "-global-"

\* Branch(name=..., hierarchy_level=..., is_default=..., is_global=...); origin_branch
\* is not passed and takes the default of the class
NewBranch(name, hierarchy_level, is_default, is_global) ==
    [name |-> name, hierarchy_level |-> hierarchy_level, is_default |-> is_default,
     is_global |-> is_global, origin_branch |-> "main"]

\* the database after first_time_initialization
Initialized ==
    /\ roots = 1
    /\ branch_nodes = <<NewBranch("main", 1, TRUE, FALSE),
                        NewBranch(GLOBAL_BRANCH_NAME, 1, FALSE, TRUE)>>

(* ------------------------------------------------------------------ *)
(* Branch.get_branches_and_times_to_query                               *)
(* ------------------------------------------------------------------ *)
\* a Branch as the filters see it
BranchObj(name, bf, eph) == [name |-> name, branched_from |-> bf, ephemeral_rebase |-> eph]

\* the same with the default branch always read at branched_from
GetBranchesAndTimesToQueryNoRebase(br, at) ==
    IF br.name = default_branch
    THEN [n \in {default_branch} |-> at]
    ELSE [n \in {default_branch, br.name} |->
            IF n = default_branch THEN br.branched_from ELSE at]

\* the time at which each branch is read for a query of branch br at time `at`
GetBranchesAndTimesToQuery(br, at) ==
    IF br.name = default_branch
    THEN [n \in {default_branch} |-> at]
    ELSE LET time_default_branch ==
                 IF br.ephemeral_rebase \/ at < br.branched_from
                 THEN at
                 ELSE br.branched_from
         IN  [n \in {default_branch, br.name} |->
                IF n = default_branch THEN time_default_branch ELSE at]

(* ------------------------------------------------------------------ *)
(* The three query filters.  Each is the disjunction, over the          *)
(* branches to query, of the two clauses the code emits; a comparison   *)
(* with an absent `to` is not true.                                     *)
(* ------------------------------------------------------------------ *)
\* the node filter with an interval that excludes its `to`
QueryFilterBranchToNodeStrict(br, at, e) ==
    LET bt == GetBranchesAndTimesToQuery(br, at)
    IN  \E b \in DOMAIN bt :
            /\ e.branch = b
            /\ \/ (e.from <= bt[b] /\ e.to = NULL)
               \/ (e.from <= bt[b] /\ e.to # NULL /\ e.to > bt[b])

\* get_query_filter_branch_to_node applied to edge e
QueryFilterBranchToNode(br, at, e) ==
    LET bt == GetBranchesAndTimesToQuery(br, at)
    IN  \E b \in DOMAIN bt :
            /\ e.branch = b
            /\ \/ (e.from <= bt[b] /\ e.to = NULL)
               \/ (e.from <= bt[b] /\ e.to # NULL /\ e.to >= bt[b])

\* get_query_filter_path applied to edge e
QueryFilterPath(br, at, e) ==
    LET bt == GetBranchesAndTimesToQuery(br, at)
    IN  \E b \in DOMAIN bt :
            \/ (e.branch = b /\ e.from <= bt[b] /\ e.to = NULL)
            \/ (e.branch = b /\ e.from <= bt[b] /\ e.to # NULL /\ e.to >= bt[b])

\* enumerate(branches_times.items()): the parameters $branch{idx} and $time{idx}, the
\* default branch first
FilterParams(br, at) ==
    LET bt == GetBranchesAndTimesToQuery(br, at)
    IN  IF br.name = default_branch
        THEN <<[branch |-> default_branch, time |-> bt[default_branch]]>>
        ELSE <<[branch |-> default_branch, time |-> bt[default_branch]],
               [branch |-> br.name, time |-> bt[br.name]]>>

\* a filter of one alias that takes open edges only
FiltersPerRelOpenOnly(params, e) ==
    \E idx \in DOMAIN params :
        e.branch = params[idx].branch /\ e.from <= params[idx].time /\ e.to = NULL

\* filters_per_rel joined by OR, applied to the edge e bound to the alias
FiltersPerRel(params, e) ==
    \E idx \in DOMAIN params :
        \/ (e.branch = params[idx].branch /\ e.from <= params[idx].time /\ e.to = NULL)
        \/ (e.branch = params[idx].branch /\ e.from <= params[idx].time
                /\ e.to # NULL /\ e.to >= params[idx].time)

\* get_query_filter_relationships: for each alias the filter without parentheses when
\* include_outside_parentheses is not set, and then the filter in parentheses
RECURSIVE RelFilters(_, _)
RelFilters(rel_labels, include_outside_parentheses) ==
    IF rel_labels = <<>>
    THEN <<>>
    ELSE LET rel == Head(rel_labels)
             bare == IF ~include_outside_parentheses
                     THEN <<[rel |-> rel, parentheses |-> FALSE]>>
                     ELSE <<>>
         IN  bare \o <<[rel |-> rel, parentheses |-> TRUE]>>
                  \o RelFilters(Tail(rel_labels), include_outside_parentheses)

QueryFilterRelationships(br, at, rel_labels, include_outside_parentheses) ==
    [filters |-> RelFilters(rel_labels, include_outside_parentheses),
     params |-> FilterParams(br, at)]

(* ------------------------------------------------------------------ *)
(* The graph                                                            *)
(* ------------------------------------------------------------------ *)
IS_PART_OF == "IS_PART_OF"
HAS_ATTRIBUTE == "HAS_ATTRIBUTE"
HAS_VALUE == "HAS_VALUE"
IS_VISIBLE == "IS_VISIBLE"
PropLabels == {HAS_VALUE, IS_VISIBLE}

Node1 == "n1"
Attr1 == "a1"

\* one relationship between Node1 and Node2, with the property is_protected
IS_RELATED == "IS_RELATED"
IS_PROTECTED == "IS_PROTECTED"
RelPropLabels == {IS_PROTECTED}
Node2 == "n2"
Rel1 == "rel1"
Values == {"v0", "v1"}
Flags == {"true", "false"}

Edge(label, src, dst, branch, from, status) ==
    [label |-> label, src |-> src, dst |-> dst, branch |-> branch,
     from |-> from, to |-> NULL, status |-> status]

Ids(es) == 1..Len(es)

\* the store is within its bounds
RelEdgeCount(es) ==
    Cardinality({i \in Ids(es) : es[i].label \in {IS_RELATED} \cup RelPropLabels})

StoreFits(es) ==
    /\ RelEdgeCount(es) <= MaxRelEdges
    /\ Len(es) - RelEdgeCount(es) <= MaxEdges

\* add_relationship: appends one edge, open ended
add_relationship(es, src, dst, label, at, branch, status) ==
    Append(es, Edge(label, src, dst, branch, at, status))

\* a close that also rewrites a `to` that is already set
update_relationships_to_overwrite(es, ids, to) ==
    [i \in Ids(es) |-> IF i \in ids THEN [es[i] EXCEPT !.to = to] ELSE es[i]]

\* update_relationships_to: sets `to` on the edges named by ids that are still open
update_relationships_to(es, ids, to) ==
    [i \in Ids(es) |->
        IF i \in ids /\ es[i].to = NULL THEN [es[i] EXCEPT !.to = to] ELSE es[i]]

(* ------------------------------------------------------------------ *)
(* Reading an attribute at (branch, at): NodeListGetAttributeQuery       *)
(* ------------------------------------------------------------------ *)
\* an edge is visible when the filter accepts it and it is ACTIVE
Visible(br, at, e) == QueryFilterPath(br, at, e) /\ e.status = ACTIVE

branch_score(e) == IF e.branch = default_branch THEN 1 ELSE 2

VisibleIds(es, br, at, label, src) ==
    {i \in Ids(es) : es[i].label = label /\ es[i].src = src /\ Visible(br, at, es[i])}

\* result rows of the query: one HAS_ATTRIBUTE edge, one HAS_VALUE edge, one IS_VISIBLE edge
AttrRows(es, br, at) ==
    [r1 : VisibleIds(es, br, at, HAS_ATTRIBUTE, Node1),
     r2 : VisibleIds(es, br, at, HAS_VALUE, Attr1),
     rel_isv : VisibleIds(es, br, at, IS_VISIBLE, Attr1)]

RowScore(es, row) ==
    branch_score(es[row.r1]) + branch_score(es[row.r2]) + branch_score(es[row.rel_isv])

\* get_result_by_id_and_name: a row with the highest branch score
BestRows(es, br, at) ==
    {row \in AttrRows(es, br, at) :
        \A other \in AttrRows(es, br, at) : RowScore(es, other) <= RowScore(es, row)}

\* the values a read of the attribute at (br, at) can return
ReadValues(es, br, at) == {es[row.r2].dst : row \in BestRows(es, br, at)}
ReadFlags(es, br, at) == {es[row.rel_isv].dst : row \in BestRows(es, br, at)}

(* ------------------------------------------------------------------ *)
(* Branches of the store                                                *)
(* ------------------------------------------------------------------ *)
BranchExists(b) == b = default_branch \/ branched_from # NULL

\* the Branch object the registry hands out
GetBranch(b, eph) ==
    IF b = default_branch
    THEN BranchObj(default_branch, 1, eph)
    ELSE BranchObj(b, registry, eph)

NoQuery == [pc |-> "idle"]

\* create_branch: a branch off the default branch at the current time
create_branch ==
    /\ branched_from = NULL
    /\ now < MaxTime
    /\ branched_from' = now
    /\ registry' = now
    /\ now' = now + 1
    /\ last' = [op |-> "create_branch", at |-> now]
    /\ branch_nodes' = Append(branch_nodes, NewBranch(BranchB, 2, FALSE, FALSE))
    /\ UNCHANGED <<edges, q, conc, roots, diff>>

(* ------------------------------------------------------------------ *)
(* BaseAttribute.save / _update                                         *)
(* ------------------------------------------------------------------ *)
\* get_branch_based_on_support_type, for a branch-aware attribute
get_branch_based_on_support_type(b) == b

\* ids to close after a property was appended: the superseded edge, when it is
\* on the attribute's branch
Superseded(es, rel, branch) ==
    IF es[rel].branch = branch THEN {rel} ELSE {}

\* the edges after _update(at) of an attribute holding (value, is_visible),
\* given the row the read returned
UpdateEdges(es, b, at, value, is_visible, current_attr) ==
    LET branch == get_branch_based_on_support_type(b)
        es1 == IF es[current_attr.r2].dst # value
               THEN update_relationships_to(
                        add_relationship(es, Attr1, value, HAS_VALUE, at, branch, ACTIVE),
                        Superseded(es, current_attr.r2, branch), at)
               ELSE es
        es2 == IF es[current_attr.rel_isv].dst # is_visible
               THEN update_relationships_to(
                        add_relationship(es1, Attr1, is_visible, IS_VISIBLE, at, branch, ACTIVE),
                        Superseded(es, current_attr.rel_isv, branch), at)
               ELSE es1
    IN  es2

AttrSave(b, value, is_visible) ==
    /\ BranchExists(b)
    /\ now < MaxTime
    /\ LET rows == BestRows(edges, GetBranch(b, FALSE), now)
       IN  IF rows = {}
           THEN /\ last' = [op |-> "save", branch |-> b, at |-> now, outcome |-> "error"]
                /\ UNCHANGED edges
           ELSE \E current_attr \in rows :
                  LET es == UpdateEdges(edges, b, now, value, is_visible, current_attr)
                  IN  /\ StoreFits(es)
                      /\ edges' = es
                      /\ last' = [op |-> "save", branch |-> b, at |-> now, outcome |-> "ok",
                                  value |-> value, is_visible |-> is_visible,
                                  value_changed |-> edges[current_attr.r2].dst # value,
                                  r2 |-> current_attr.r2]
    /\ now' = now + 1
    /\ UNCHANGED <<branched_from, registry, q, conc, instance, diff>>

(* ------------------------------------------------------------------ *)
(* BaseAttribute.delete                                                 *)
(* ------------------------------------------------------------------ *)
\* AttributeGetQuery: the rows (r1, r2) of the attribute visible at (branch, at)
AttributeGetResults(es, br, at) ==
    [r1 : VisibleIds(es, br, at, HAS_ATTRIBUTE, Node1),
     r2 : {i \in Ids(es) : es[i].label \in PropLabels /\ es[i].src = Attr1
                           /\ Visible(br, at, es[i])}]

\* the rows in the order of their edge ids
RowKey(row) == row.r2 * (MaxEdges + 1) + row.r1

RECURSIVE RowsToSeq(_)
RowsToSeq(S) ==
    IF S = {}
    THEN <<>>
    ELSE LET first == CHOOSE x \in S : \A y \in S : RowKey(x) <= RowKey(y)
         IN  <<first>> \o RowsToSeq(S \ {first})

\* one DELETED edge per result, to the same property vertex
RECURSIVE AddDeleted(_, _, _, _)
AddDeleted(es, results, branch, at) ==
    IF results = <<>>
    THEN es
    ELSE LET r2 == es[Head(results).r2]
         IN  AddDeleted(add_relationship(es, Attr1, r2.dst, r2.label, at, branch, DELETED),
                        Tail(results), branch, at)

\* result.get_rels() of every result
ResultRels(results) == {row.r1 : row \in results} \cup {row.r2 : row \in results}

\* a close of every edge of the results, whatever its branch
RelIdsToUpdateAnyBranch(es, results, branch) == ResultRels(results)

\* the edges of the results to close: those on the attribute's branch
RelIdsToUpdate(es, results, branch) == {i \in ResultRels(results) : es[i].branch = branch}

\* the edges after delete(at): a DELETED edge per result, the results' edges on the
\* attribute's branch closed, and a DELETED HAS_ATTRIBUTE edge
DeleteEdges(es, b, at, results) ==
    LET branch == get_branch_based_on_support_type(b)
        es1 == AddDeleted(es, RowsToSeq(results), branch, at)
        es2 == update_relationships_to(es1, RelIdsToUpdate(es, results, branch), at)
    IN  add_relationship(es2, Node1, Attr1, HAS_ATTRIBUTE, at, branch, DELETED)

AttrDelete(b) ==
    /\ BranchExists(b)
    /\ now < MaxTime
    /\ LET results == AttributeGetResults(edges, GetBranch(b, FALSE), now)
       IN  IF results = {}
           THEN /\ last' = [op |-> "delete", branch |-> b, at |-> now, outcome |-> "false"]
                /\ UNCHANGED edges
           ELSE LET es == DeleteEdges(edges, b, now, results)
                IN  /\ StoreFits(es)
                    /\ edges' = es
                    /\ last' = [op |-> "delete", branch |-> b, at |-> now, outcome |-> "ok",
                                results |-> results]
    /\ now' = now + 1
    /\ UNCHANGED <<branched_from, registry, q, conc, instance, diff>>

(* ------------------------------------------------------------------ *)
(* Diff                                                                 *)
(* ------------------------------------------------------------------ *)
\* a constructor that takes any window and starts an omitted diff_from at the first instant
DiffInitAnyWindow(b, diff_from, diff_to) ==
    [ok |-> TRUE,
     branch |-> b,
     branch_only |-> FALSE,
     branch_names |-> IF b = default_branch THEN {b} ELSE {b, default_branch},
     diff_from |-> IF diff_from # NULL THEN diff_from ELSE 1,
     diff_to |-> IF diff_to # NULL THEN diff_to ELSE now]

\* Diff.__init__ / DiffQuery.__init__: the window and the branches of the diff;
\* a NULL argument is an omitted one
DiffInit(b, diff_from, diff_to) ==
    LET from == IF diff_from # NULL THEN diff_from
                ELSE IF b # default_branch THEN registry ELSE NULL
        to == IF diff_to # NULL THEN diff_to ELSE now
    IN  [ok |-> from # NULL /\ ~(to < from),
         branch |-> b,
         branch_only |-> FALSE,
         branch_names |-> IF b = default_branch THEN {b} ELSE {b, default_branch},
         diff_from |-> from,
         diff_to |-> to]

\* Diff(branch, branch_only=True, diff_from, diff_to)
DiffBranchOnly(b, diff_from, diff_to) ==
    [DiffInit(b, diff_from, diff_to) EXCEPT !.branch_only = TRUE]

\* the WHERE clause of DiffNodeQuery and DiffAttributeQuery
QueryFrom(e, d) ==
    \/ (e.branch \in d.branch_names /\ e.from >= d.diff_from)
    \/ (e.branch \in d.branch_names /\ e.to # NULL /\ e.to <= d.diff_from)

\* a skip that also drops the edges closed at diff_to
ClosedBeforeOrAt(e, d) == e.to # NULL /\ e.to <= d.diff_to

\* "if to and to < self.diff_to: continue"
ClosedBefore(e, d) == e.to # NULL /\ e.to < d.diff_to

\* DiffNodeQuery results filed under branch bn that are not skipped
NodeSurvivors(es, d, bn) ==
    {i \in Ids(es) : /\ es[i].label = IS_PART_OF /\ es[i].branch = bn
                     /\ QueryFrom(es[i], d) /\ ~ClosedBefore(es[i], d)}

\* DiffAttributeQuery: r1 is any HAS_ATTRIBUTE edge, r2 a property edge of the window
AttrQueryR1(es) == {i \in Ids(es) : es[i].label = HAS_ATTRIBUTE}

AttrQueryR2(es, d, bn) ==
    {i \in Ids(es) : /\ es[i].label \in PropLabels /\ es[i].branch = bn
                     /\ QueryFrom(es[i], d)}

AttrRowsExist(es, d, bn) == AttrQueryR1(es) # {} /\ AttrQueryR2(es, d, bn) # {}

EligibleR1(es, d) == {i \in AttrQueryR1(es) : ~ClosedBefore(es[i], d)}

SurvivingR2(es, d, bn, pt) ==
    {i \in AttrQueryR2(es, d, bn) : es[i].label = pt /\ ~ClosedBefore(es[i], d)}

\* the branch has a key in Diff._results
BranchInResults(es, d, bn) ==
    \E i \in Ids(es) : /\ es[i].branch = bn
                       /\ QueryFrom(es[i], d)
                       /\ \/ es[i].label = IS_PART_OF /\ ~ClosedBefore(es[i], d)
                          \/ es[i].label \in PropLabels /\ AttrQueryR1(es) # {}

HasAttrEntry(es, d, bn) == AttrRowsExist(es, d, bn) /\ EligibleR1(es, d) # {}

\* the property pass reaches an attribute that the attribute pass skipped
DiffFails(es, d) ==
    \E bn \in d.branch_names, pt \in PropLabels :
        SurvivingR2(es, d, bn, pt) # {} /\ ~HasAttrEntry(es, d, bn)

\* a set of query results, or the absence of one
OrNone(S) == IF S = {} THEN {0} ELSE S

\* DiffRelationshipQuery / DiffRelationshipPropertyQuery: the edge is on a branch of
\* the diff and inside the window
RelInWindow(e, d) ==
    /\ e.branch \in d.branch_names
    /\ e.from >= d.diff_from /\ e.from <= d.diff_to
    /\ (e.to = NULL \/ (e.to >= d.diff_from /\ e.to <= d.diff_to))

\* the two endpoint edges of one path: same branch, from, to and status
SamePath(e1, e2) ==
    /\ e1.branch = e2.branch /\ e1.from = e2.from /\ e1.to = e2.to
    /\ e1.status = e2.status

\* the endpoint edges of the relationship, Node1's first
EndpointPairs(es) ==
    {row \in [e1 : {i \in Ids(es) : es[i].label = IS_RELATED /\ es[i].src = Node1},
              e2 : {i \in Ids(es) : es[i].label = IS_RELATED /\ es[i].src = Node2}] :
        SamePath(es[row.e1], es[row.e2])}

\* DiffRelationshipQuery.get_results: the rows under the key of branch bn
RelQueryRows(es, d, bn) ==
    {row \in EndpointPairs(es) : /\ es[row.e1].branch = bn
                                 /\ RelInWindow(es[row.e1], d)
                                 /\ RelInWindow(es[row.e2], d)}

NoRelRow == [e1 |-> 0, e2 |-> 0]

\* the row kept for the key of branch bn
RelRowChoices(es, d, bn) ==
    IF RelQueryRows(es, d, bn) = {} THEN {NoRelRow} ELSE RelQueryRows(es, d, bn)

\* DiffRelationshipPropertyQuery: r3 is a property edge of the window, (r1, r2) a path
\* that the filter of the diff's branch accepts at diff_to
RelPropQueryRows(es, d) ==
    {row \in [r3 : {i \in Ids(es) : es[i].label \in RelPropLabels /\ RelInWindow(es[i], d)},
              path : EndpointPairs(es)] :
        /\ QueryFilterPath(GetBranch(d.branch, FALSE), d.diff_to, es[row.path.e1])
        /\ QueryFilterPath(GetBranch(d.branch, FALSE), d.diff_to, es[row.path.e2])}

\* get_results keeps, per key (branch of r1, property type), a row of the highest
\* branch score
RelPropYielded(es, d) ==
    {row \in RelPropQueryRows(es, d) :
        \A other \in RelPropQueryRows(es, d) :
            (/\ es[other.path.e1].branch = es[row.path.e1].branch
             /\ es[other.r3].label = es[row.r3].label)
            => branch_score(es[other.r3]) <= branch_score(es[row.r3])}

\* the property edges that can be filed last under branch bn for property type pt
RelPropChoices(es, d, bn, pt) ==
    {row.r3 : row \in {y \in RelPropYielded(es, d) :
                           es[y.r3].branch = bn /\ es[y.r3].label = pt}}

RelHasProps(es, d, bn) == \E pt \in RelPropLabels : RelPropChoices(es, d, bn, pt) # {}

\* the action of the relationship filed under branch bn, given the row kept
RelActionOf(es, row) ==
    IF row = NoRelRow THEN UPDATED
    ELSE IF es[row.e1].status = ACTIVE THEN ADDED ELSE REMOVED

\* the relationship has an entry under branch bn
RelInResults(es, d, bn) == RelQueryRows(es, d, bn) # {} \/ RelHasProps(es, d, bn)

\* RelationshipListGetPropertiesQuery on the origin branch at diff_to
OriginRelProps(es, d, pt) ==
    VisibleIds(es, BranchObj(default_branch, 1, FALSE), d.diff_to, pt, Rel1)

\* a choice for the relationship names the row kept per branch (row_self, row_origin),
\* the property edge filed last under the diff's branch (prop) and the property edge
\* read on the origin branch (origin); 0 stands for none
RelRowOf(d, rc, bn) == IF bn = d.branch THEN rc.row_self ELSE rc.row_origin

\* rel_ids_to_query is not empty: a relationship was REMOVED or filed as UPDATED
RelIdsToQuery(es, d, rc) ==
    \E bn \in d.branch_names :
        \/ (RelRowOf(d, rc, bn) # NoRelRow /\ es[RelRowOf(d, rc, bn).e1].status = DELETED)
        \/ (RelRowOf(d, rc, bn) = NoRelRow /\ RelHasProps(es, d, bn))

RelDiffChoices(es, d) ==
    {rc \in [row_self : RelRowChoices(es, d, d.branch),
             row_origin : RelRowChoices(es, d, default_branch),
             prop : OrNone(RelPropChoices(es, d, d.branch, IS_PROTECTED)),
             origin : OriginRelProps(es, d, IS_PROTECTED) \cup {0}] :
        (rc.origin = 0)
            <=> ~(RelIdsToQuery(es, d, rc) /\ OriginRelProps(es, d, IS_PROTECTED) # {})}

\* the action of the relationship property filed from edge r3
RelPropActionOf(es, d, rc, r3) ==
    IF rc.origin = 0 /\ es[r3].from >= d.diff_from /\ es[r3].status = ACTIVE
    THEN ADDED
    ELSE IF es[r3].from >= d.diff_from /\ es[r3].status = DELETED
    THEN REMOVED
    ELSE UPDATED

\* the paths of the relationship property changes filed under branch bn
RelPaths(es, d, bn) ==
    {<<"relationships", IS_RELATED, Rel1, pt>> :
        pt \in {p \in RelPropLabels : RelPropChoices(es, d, bn, p) # {}}}

\* the property paths of the attribute changes filed under branch bn
AttrPaths(es, d, bn) ==
    {<<"node", Node1, Attr1, pt>> : pt \in {p \in PropLabels : SurvivingR2(es, d, bn, p) # {}}}

\* get_modified_paths without the test on branch_only
ModifiedPathsAllBranches(es, d, bn) == AttrPaths(es, d, bn) \cup RelPaths(es, d, bn)

\* Diff.get_modified_paths: the paths under the key bn, none when there is no key
ModifiedPaths(es, d, bn) ==
    IF d.branch_only /\ bn # d.branch
    THEN {}
    ELSE AttrPaths(es, d, bn) \cup RelPaths(es, d, bn)

\* get_conflicts returning the paths of either branch
GetConflictsUnion(es, d) ==
    IF d.branch_only
    THEN {}
    ELSE ModifiedPaths(es, d, d.branch) \cup ModifiedPaths(es, d, default_branch)

\* Diff.get_conflicts
GetConflicts(es, d) ==
    IF d.branch_only
    THEN {}
    ELSE LET branches == {bn \in d.branch_names : ModifiedPaths(es, d, bn) # {}}
         IN  IF Cardinality(branches) < 2
             THEN {}
             ELSE ModifiedPaths(es, d, d.branch) \cap ModifiedPaths(es, d, default_branch)

\* Diff.has_changes
HasChanges(es, d) == \E bn \in d.branch_names : ModifiedPaths(es, d, bn) # {}

\* The order of the query results is not fixed: a choice names, per branch, the
\* IS_PART_OF result filed last (n), the HAS_ATTRIBUTE edge of the first row kept (r1),
\* the HAS_ATTRIBUTE edge of the last row processed (r1last), per property type the
\* property edge filed last (r2), and the row read on the origin branch (origin).
NoRow == [r1 |-> 0, r2 |-> 0, rel_isv |-> 0]

NodeActionOf(es, nrel) ==
    IF nrel = 0 THEN UPDATED
    ELSE IF es[nrel].status = ACTIVE THEN ADDED ELSE REMOVED

AttrActionOf(es, d, node_action, r1) ==
    IF node_action = ADDED /\ es[r1].from >= d.diff_from /\ es[r1].status = ACTIVE
    THEN ADDED
    ELSE IF es[r1].from >= d.diff_from /\ es[r1].status = DELETED
    THEN REMOVED
    ELSE UPDATED

\* the choice made for branch bn: the diff's own branch or the origin branch
ChoiceN(d, c, bn) == IF bn = d.branch THEN c.n_self ELSE c.n_origin
ChoiceR1(d, c, bn) == IF bn = d.branch THEN c.r1_self ELSE c.r1_origin

\* attrs_to_query["nodes"] is not empty
AttrsToQuery(es, d, c) ==
    \E bn \in d.branch_names :
        /\ HasAttrEntry(es, d, bn)
        /\ AttrActionOf(es, d, NodeActionOf(es, ChoiceN(d, c, bn)), ChoiceR1(d, c, bn)) # ADDED

OriginRows(es, d) == BestRows(es, BranchObj(default_branch, 1, FALSE), d.diff_to)

R1Choices(es, d, bn) ==
    IF bn \in d.branch_names /\ HasAttrEntry(es, d, bn) THEN EligibleR1(es, d) ELSE {0}

NChoices(es, d, bn) ==
    IF bn \in d.branch_names THEN OrNone(NodeSurvivors(es, d, bn)) ELSE {0}

DiffChoices(es, d) ==
    {c \in [n_self : NChoices(es, d, d.branch),
            n_origin : NChoices(es, d, default_branch),
            r1_self : R1Choices(es, d, d.branch),
            r1_origin : R1Choices(es, d, default_branch),
            r1last : OrNone(AttrQueryR1(es)),
            value : OrNone(SurvivingR2(es, d, d.branch, HAS_VALUE)),
            flag : OrNone(SurvivingR2(es, d, d.branch, IS_VISIBLE)),
            origin : OriginRows(es, d) \cup {NoRow}] :
        (c.origin = NoRow) <=> ~(AttrsToQuery(es, d, c) /\ OriginRows(es, d) # {})}

ChoiceR2(c, pt) == IF pt = HAS_VALUE THEN c.value ELSE c.flag

PropActionOf(es, d, c, r2) ==
    IF c.origin = NoRow /\ es[r2].from >= d.diff_from /\ es[r2].status = ACTIVE
    THEN ADDED
    ELSE IF es[r2].from >= d.diff_from /\ es[r2].status = DELETED
    THEN REMOVED
    ELSE UPDATED

PropOriginRelId(c, pt) == IF pt = HAS_VALUE THEN c.origin.r2 ELSE c.origin.rel_isv

(* ------------------------------------------------------------------ *)
(* Branch.merge                                                         *)
(* ------------------------------------------------------------------ *)
\* AddNodeToBranch: the IS_PART_OF edge is stamped with the query's own time
AddNodeToBranch(node, branch) == Edge(IS_PART_OF, node, branch, branch, now, ACTIVE)

\* NodeDeleteQuery: a DELETED IS_PART_OF edge on the branch
NodeDeleteQuery(node, branch, at) == Edge(IS_PART_OF, node, branch, branch, at, DELETED)

\* the IS_PART_OF edge of the node on the default branch (origin_nodes[node_id]["rb"])
OriginNodeRb(es) ==
    LET rb == VisibleIds(es, BranchObj(default_branch, 1, FALSE), now, IS_PART_OF, Node1)
    IN  IF rb = {} THEN 0 ELSE CHOOSE i \in rb : \A j \in rb : j <= i

StatusOfAction(action) == IF action = REMOVED THEN DELETED ELSE ACTIVE

SelfNodeAction(es, d, c) == NodeActionOf(es, c.n_self)
SelfAttrAction(es, d, c) == AttrActionOf(es, d, SelfNodeAction(es, d, c), c.r1_self)

\* attr.origin_rel_id: the HAS_ATTRIBUTE edge of the last property row processed
AttrOriginRelId(es, d, c) ==
    IF \E pt \in PropLabels : SurvivingR2(es, d, d.branch, pt) # {} THEN c.r1last ELSE 0

\* the edge merge appends for the property filed under pt
PropAppend(es, d, c, at, pt) ==
    <<Edge(pt, Attr1, es[ChoiceR2(c, pt)].dst, default_branch, at,
           StatusOfAction(PropActionOf(es, d, c, ChoiceR2(c, pt))))>>

\* the ids merge schedules for the property filed under pt
PropCloses(es, d, c, pt) ==
    IF PropActionOf(es, d, c, ChoiceR2(c, pt)) = ADDED
    THEN {ChoiceR2(c, pt)}
    ELSE {ChoiceR2(c, pt), PropOriginRelId(c, pt)}

PropOrder == <<HAS_VALUE, IS_VISIBLE>>

\* the edges merge appends, in the order of the writes
MergeAppends(es, d, c, at) ==
    LET node_part ==
            IF SelfNodeAction(es, d, c) = ADDED
            THEN <<AddNodeToBranch(Node1, default_branch)>>
            ELSE IF SelfNodeAction(es, d, c) = REMOVED
            THEN <<NodeDeleteQuery(Node1, default_branch, at)>>
            ELSE <<>>
        attr_part ==
            IF ~HasAttrEntry(es, d, d.branch) \/ SelfAttrAction(es, d, c) = UPDATED
            THEN <<>>
            ELSE <<Edge(HAS_ATTRIBUTE, Node1, Attr1, default_branch, at,
                        StatusOfAction(SelfAttrAction(es, d, c)))>>
        prop_part(pt) ==
            IF HasAttrEntry(es, d, d.branch) /\ ChoiceR2(c, pt) # 0
            THEN PropAppend(es, d, c, at, pt)
            ELSE <<>>
    IN  node_part \o attr_part \o prop_part(PropOrder[1]) \o prop_part(PropOrder[2])

\* rel_ids_to_update; 0 stands for None
MergeCloses(es, d, c) ==
    LET node_part ==
            IF SelfNodeAction(es, d, c) = ADDED THEN {c.n_self}
            ELSE IF SelfNodeAction(es, d, c) = REMOVED THEN {c.n_self, OriginNodeRb(es)}
            ELSE {}
        attr_part ==
            IF ~HasAttrEntry(es, d, d.branch) \/ SelfAttrAction(es, d, c) = UPDATED
            THEN {}
            ELSE IF SelfAttrAction(es, d, c) = ADDED
            THEN {c.r1_self}
            ELSE {c.r1_self, AttrOriginRelId(es, d, c)}
        prop_part(pt) ==
            IF HasAttrEntry(es, d, d.branch) /\ ChoiceR2(c, pt) # 0
            THEN PropCloses(es, d, c, pt)
            ELSE {}
    IN  node_part \cup attr_part \cup prop_part(HAS_VALUE) \cup prop_part(IS_VISIBLE)

\* the status merge gives the edge of a replayed relationship property:
\* add_relationship is called without a status
RelPropStatus(action) == ACTIVE

\* the IS_RELATED edges merge appends for the endpoints of the relationship
RelNodesPart(es, d, rc, at) ==
    IF RelActionOf(es, rc.row_self) \in {ADDED, REMOVED}
    THEN <<Edge(IS_RELATED, Node1, Rel1, default_branch, at,
                StatusOfAction(RelActionOf(es, rc.row_self))),
           Edge(IS_RELATED, Node2, Rel1, default_branch, at,
                StatusOfAction(RelActionOf(es, rc.row_self)))>>
    ELSE <<>>

\* the edge merge appends for the property of the relationship
RelPropsPart(es, d, rc, at) ==
    IF rc.prop # 0
    THEN <<Edge(es[rc.prop].label, Rel1, es[rc.prop].dst, default_branch, at,
                RelPropStatus(RelPropActionOf(es, d, rc, rc.prop)))>>
    ELSE <<>>

\* a merge that writes the property of the relationship before its endpoints
RelMergeAppendsPropsFirst(es, d, rc, at) ==
    RelPropsPart(es, d, rc, at) \o RelNodesPart(es, d, rc, at)

\* the edges merge appends for the relationship, in the order of the writes
RelMergeAppends(es, d, rc, at) ==
    RelNodesPart(es, d, rc, at) \o RelPropsPart(es, d, rc, at)

\* the ids merge schedules for the relationship
RelMergeCloses(es, d, rc) ==
    LET action == RelActionOf(es, rc.row_self)
        nodes_part ==
            IF action \in {ADDED, REMOVED} THEN {rc.row_self.e1, rc.row_self.e2} ELSE {}
        props_part ==
            IF rc.prop = 0 THEN {}
            ELSE IF action \in {UPDATED, REMOVED} THEN {rc.prop, rc.origin}
            ELSE {rc.prop}
    IN  nodes_part \cup props_part

\* a validation that passes whatever the diff holds
ValidateAlways(es, d) == TRUE

\* Branch.validate: no conflict in the diff of the branch
Validate(es, d) == GetConflicts(es, d) = {}

\* Branch.rebase: the time the branch is rebased to
Rebase(start) == start + 1

\* a merge that raises after it has rebased the branch
MergeErrorAfterRebase(b, at, reason) ==
    /\ last' = [op |-> "merge", branch |-> b, at |-> at, start |-> now,
                outcome |-> "error", reason |-> reason]
    /\ now' = now + 1
    /\ branched_from' = Rebase(now)
    /\ registry' = Rebase(now)
    /\ UNCHANGED edges

\* merge raises before its first write
MergeError(b, at, reason) ==
    /\ last' = [op |-> "merge", branch |-> b, at |-> at, start |-> now,
                outcome |-> "error", reason |-> reason]
    /\ now' = now + 1
    /\ UNCHANGED <<edges, branched_from, registry>>

\* the `at` a caller passes to merge: none (the current time), an earlier time, or a
\* time later than the one the merge ends at
MergeAts == {now - 1, now, now + 3} \cap Times

\* the writes of one merge: the node, the attribute, its properties, the close of the
\* scheduled edges and the save of the branch
MergeWrites == Cardinality(PropLabels) + 4

\* the writes of one merge for the relationship: its endpoints and its property
RelMergeWrites == Cardinality(RelPropLabels) + 2

\* merge(at) of branch b; fail = 0 when the backend performs every write, else the
\* number of the write that the backend fails
Merge(b, at, fail) ==
    /\ BranchExists(b)
    /\ now + 2 <= MaxTime
    /\ UNCHANGED <<q, conc, instance, diff>>
    /\ LET d == DiffInit(b, NULL, NULL)
       IN  IF ~d.ok
           THEN fail = 0 /\ MergeError(b, at, "diff_from is mandatory")
           ELSE IF DiffFails(edges, d)
           THEN fail = 0 /\ MergeError(b, at, "diff failed")
           ELSE IF ~Validate(edges, d)
           THEN fail = 0 /\ MergeError(b, at, "validation failed")
           ELSE IF b = default_branch
           THEN fail = 0 /\ MergeError(b, at, "into itself")
           ELSE IF ~BranchInResults(edges, d, b)
           THEN fail = 0 /\ MergeError(b, at, "no changes")
           ELSE \E c \in DiffChoices(edges, d), rc \in RelDiffChoices(edges, d) :
                  LET appends == MergeAppends(edges, d, c, at)
                                     \o RelMergeAppends(edges, d, rc, at)
                      closes == MergeCloses(edges, d, c) \cup RelMergeCloses(edges, d, rc)
                      n == Len(appends)
                      done == IF fail = 0 THEN n ELSE IF fail - 1 < n THEN fail - 1 ELSE n
                      appended == edges \o SubSeq(appends, 1, done)
                      closed == fail = 0 \/ fail > n + 1
                  IN  /\ fail <= n + 2
                      /\ StoreFits(edges \o appends)
                      /\ edges' = IF closed
                                  THEN update_relationships_to(appended, closes, at)
                                  ELSE appended
                      /\ branched_from' = IF fail = 0 THEN Rebase(now) ELSE branched_from
                      /\ registry' = IF fail = 0 THEN Rebase(now) ELSE registry
                      /\ now' = now + 2
                      /\ last' = [op |-> "merge", branch |-> b, at |-> at, start |-> now,
                                  outcome |-> IF fail = 0 THEN "ok" ELSE "backend failure",
                                  fail |-> fail, closes |-> closes, appends |-> n,
                                  conflicts |-> GetConflicts(edges, d),
                                  paths |-> ModifiedPaths(edges, d, b),
                                  choice |-> c, rel_choice |-> rc,
                                  before |-> Len(edges),
                                  open_before |-> {i \in closes \cap Ids(edges) :
                                                      edges[i].to = NULL},
                                  node_action |-> SelfNodeAction(edges, d, c),
                                  attr_action |-> IF HasAttrEntry(edges, d, b)
                                                  THEN SelfAttrAction(edges, d, c)
                                                  ELSE UPDATED,
                                  rel_action |-> RelActionOf(edges, rc.row_self)]

(* ------------------------------------------------------------------ *)
(* Node.save of a new node and Node.delete                              *)
(* ------------------------------------------------------------------ *)
\* the edges a new node is stored with: its anchor, its attribute and the
\* attribute's properties
NodeCreateEdges(b, at, value, is_visible) ==
    <<Edge(IS_PART_OF, Node1, b, b, at, ACTIVE),
      Edge(HAS_ATTRIBUTE, Node1, Attr1, b, at, ACTIVE),
      Edge(HAS_VALUE, Attr1, value, b, at, ACTIVE),
      Edge(IS_VISIBLE, Attr1, is_visible, b, at, ACTIVE)>>

\* Node1 is created on branch b; a uuid is created once
NodeCreate(b) ==
    /\ BranchExists(b)
    /\ now < MaxTime
    /\ edges = <<>>
    /\ edges' = NodeCreateEdges(b, now, "v0", "true")
    /\ last' = [op |-> "node_create", branch |-> b, at |-> now]
    /\ now' = now + 1
    /\ UNCHANGED <<branched_from, registry, q, conc, instance, diff>>

\* the ACTIVE edges of the node on the branch
NodeEdges(es, b) ==
    {i \in Ids(es) : es[i].src = Node1 /\ es[i].branch = b /\ es[i].status = ACTIVE}

\* delete_node: the node's ACTIVE edges on the branch are closed and a DELETED
\* IS_PART_OF is appended
delete_node(es, b, at) ==
    Append(update_relationships_to(es, NodeEdges(es, b), at), NodeDeleteQuery(Node1, b, at))

\* Node1, visible on branch b, is deleted on it
NodeDelete(b) ==
    /\ BranchExists(b)
    /\ now < MaxTime
    /\ VisibleIds(edges, GetBranch(b, FALSE), now, IS_PART_OF, Node1) # {}
    /\ StoreFits(delete_node(edges, b, now))
    /\ edges' = delete_node(edges, b, now)
    /\ last' = [op |-> "node_delete", branch |-> b, at |-> now]
    /\ now' = now + 1
    /\ UNCHANGED <<branched_from, registry, q, conc, instance, diff>>

(* ------------------------------------------------------------------ *)
(* Relationship.save and Relationship.delete                            *)
(* ------------------------------------------------------------------ *)
\* the edges a new relationship is stored with: its two endpoints and its property
RelCreateEdges(b, at, is_protected) ==
    <<Edge(IS_RELATED, Node1, Rel1, b, at, ACTIVE),
      Edge(IS_RELATED, Node2, Rel1, b, at, ACTIVE),
      Edge(IS_PROTECTED, Rel1, is_protected, b, at, ACTIVE)>>

\* the relationship is created on branch b; a uuid is created once
RelCreate(b) ==
    /\ BranchExists(b)
    /\ now < MaxTime
    /\ RelEdgeCount(edges) = 0
    /\ VisibleIds(edges, GetBranch(b, FALSE), now, IS_PART_OF, Node1) # {}
    /\ edges' = edges \o RelCreateEdges(b, now, "false")
    /\ last' = [op |-> "rel_create", branch |-> b, at |-> now]
    /\ now' = now + 1
    /\ UNCHANGED <<branched_from, registry, q, conc, instance, diff>>

\* the relationship is visible at (br, at): both endpoints are
RelVisible(es, br, at) ==
    /\ VisibleIds(es, br, at, IS_RELATED, Node1) # {}
    /\ VisibleIds(es, br, at, IS_RELATED, Node2) # {}

\* the property edge a read of the relationship returns: a visible one of the
\* highest branch score
RelCurrentProps(es, br, at) ==
    {i \in VisibleIds(es, br, at, IS_PROTECTED, Rel1) :
        \A j \in VisibleIds(es, br, at, IS_PROTECTED, Rel1) :
            branch_score(es[j]) <= branch_score(es[i])}

\* the open ACTIVE edges of the relationship on the branch
RelOpenEdges(es, b) ==
    {i \in Ids(es) : /\ es[i].label \in {IS_RELATED} \cup RelPropLabels
                     /\ es[i].branch = b /\ es[i].status = ACTIVE /\ es[i].to = NULL}

\* the edges after the relationship was deleted: a DELETED edge per endpoint and
\* property, the prior ACTIVE edges of the branch closed
RelDeleteEdges(es, b, at, prop) ==
    update_relationships_to(es, RelOpenEdges(es, b), at)
        \o <<Edge(IS_RELATED, Node1, Rel1, b, at, DELETED),
              Edge(IS_RELATED, Node2, Rel1, b, at, DELETED),
              Edge(IS_PROTECTED, Rel1, es[prop].dst, b, at, DELETED)>>

RelDelete(b) ==
    /\ BranchExists(b)
    /\ now < MaxTime
    /\ RelVisible(edges, GetBranch(b, FALSE), now)
    /\ \E prop \in RelCurrentProps(edges, GetBranch(b, FALSE), now) :
           /\ StoreFits(RelDeleteEdges(edges, b, now, prop))
           /\ edges' = RelDeleteEdges(edges, b, now, prop)
    /\ last' = [op |-> "rel_delete", branch |-> b, at |-> now]
    /\ now' = now + 1
    /\ UNCHANGED <<branched_from, registry, q, conc, instance, diff>>

\* the edges after the property of the relationship was saved as is_protected
RelUpdateEdges(es, b, at, is_protected, prop) ==
    IF es[prop].dst # is_protected
    THEN update_relationships_to(
             add_relationship(es, Rel1, is_protected, IS_PROTECTED, at, b, ACTIVE),
             Superseded(es, prop, b), at)
    ELSE es

RelUpdate(b, is_protected) ==
    /\ BranchExists(b)
    /\ now < MaxTime
    /\ RelVisible(edges, GetBranch(b, FALSE), now)
    /\ \E prop \in RelCurrentProps(edges, GetBranch(b, FALSE), now) :
           /\ StoreFits(RelUpdateEdges(edges, b, now, is_protected, prop))
           /\ edges' = RelUpdateEdges(edges, b, now, is_protected, prop)
    /\ last' = [op |-> "rel_update", branch |-> b, at |-> now,
                is_protected |-> is_protected]
    /\ now' = now + 1
    /\ UNCHANGED <<branched_from, registry, q, conc, instance, diff>>

(* ------------------------------------------------------------------ *)
(* The store after Node1 was created on the default branch at time 1    *)
(* ------------------------------------------------------------------ *)
InitEdges == NodeCreateEdges(default_branch, 1, "v0", "true")

Init ==
    /\ edges = InitEdges
    /\ branched_from = NULL
    /\ registry = NULL
    /\ now = 2
    /\ last = [op |-> "init", at |-> 1]
    /\ q = NoQuery
    /\ NoCallers
    /\ diff = NoDiff
    /\ Initialized

Next ==
    \/ create_branch
    \/ \E b \in BranchNames, value \in Values, is_visible \in Flags :
           AttrSave(b, value, is_visible)
    \/ \E b \in BranchNames : AttrDelete(b)
    \/ \E b \in BranchNames, at \in MergeAts : Merge(b, at, 0)

Spec == Init /\ [][Next]_vars

\* the same store on a backend that can fail a write of a merge
NextFailing ==
    \/ create_branch
    \/ \E b \in BranchNames, value \in Values, is_visible \in Flags :
           AttrSave(b, value, is_visible)
    \/ \E b \in BranchNames : AttrDelete(b)
    \/ \E b \in BranchNames, at \in MergeAts, fail \in 0..MergeWrites : Merge(b, at, fail)

SpecFailing == Init /\ [][NextFailing]_vars

\* a store that is empty or holds Node1, with the operations on nodes
InitNodes ==
    /\ edges \in {<<>>, InitEdges}
    /\ branched_from = NULL
    /\ registry = NULL
    /\ now = 2
    /\ last = [op |-> "init", at |-> 1]
    /\ q = NoQuery
    /\ NoCallers
    /\ diff = NoDiff
    /\ Initialized

NextNodes ==
    \/ create_branch /\ now' <= MaxNodeTime
    \/ \E b \in BranchNames : NodeCreate(b) /\ now' <= MaxNodeTime
    \/ \E b \in BranchNames : NodeDelete(b) /\ now' <= MaxNodeTime
    \/ \E b \in BranchNames, value \in Values :
           AttrSave(b, value, "true") /\ now' <= MaxNodeTime
    \/ \E b \in BranchNames : AttrDelete(b) /\ now' <= MaxNodeTime
    \/ \E b \in BranchNames, at \in MergeAts : Merge(b, at, 0) /\ now' <= MaxNodeTime

SpecNodes == InitNodes /\ [][NextNodes]_vars

\* the same store followed long enough for a merge to replay a node that was created
\* and then changed on the branch
MaxReplayTime == 7

NextReplay ==
    \/ create_branch /\ now' <= MaxReplayTime
    \/ \E b \in BranchNames : NodeCreate(b) /\ now' <= MaxReplayTime
    \/ \E b \in BranchNames : NodeDelete(b) /\ now' <= MaxReplayTime
    \/ \E b \in BranchNames, value \in Values :
           AttrSave(b, value, "true") /\ now' <= MaxReplayTime
    \/ \E b \in BranchNames : AttrDelete(b) /\ now' <= MaxReplayTime
    \/ \E b \in BranchNames, at \in MergeAts : Merge(b, at, 0) /\ now' <= MaxReplayTime

SpecReplay == InitNodes /\ [][NextReplay]_vars

\* a store that is empty or holds Node1, with or without the relationship, with the
\* operations on the relationship, on a backend that can fail a write of a merge
InitRel ==
    /\ edges \in {<<>>, InitEdges, InitEdges \o RelCreateEdges(default_branch, 1, "false")}
    /\ branched_from = NULL
    /\ registry = NULL
    /\ now = 2
    /\ last = [op |-> "init", at |-> 1]
    /\ q = NoQuery
    /\ NoCallers
    /\ diff = NoDiff
    /\ Initialized

NextRel ==
    \/ create_branch
    \/ \E b \in BranchNames : NodeCreate(b)
    \/ \E b \in BranchNames : RelCreate(b)
    \/ \E b \in BranchNames : RelDelete(b)
    \/ \E b \in BranchNames, is_protected \in Flags : RelUpdate(b, is_protected)
    \/ \E b \in BranchNames : AttrSave(b, "v1", "true")
    \/ \E b \in BranchNames, at \in MergeAts, fail \in 0..(MergeWrites + RelMergeWrites) :
           Merge(b, at, fail)

SpecRel == InitRel /\ [][NextRel]_vars

(* ------------------------------------------------------------------ *)
(* Branch.merge, step by step, for callers that run concurrently        *)
(* ------------------------------------------------------------------ *)
\* a scoped acquisition that does not wait for the holder
AcquireHeld(name, p) == locks' = [locks EXCEPT ![name] = p]

\* the lock registry: a scoped acquisition of the named lock, and its release
Acquire(name, p) == locks[name] = Free /\ locks' = [locks EXCEPT ![name] = p]
Release(name, p) == locks' = [locks EXCEPT ![name] = IF locks[name] = p THEN Free ELSE @]

\* the steps of a call that is under way
InMerge == {"validate", "diff", "write", "close", "rebase"}

\* the `at` a caller passes to merge: none, an earlier time or a later one
MergeCallAts == {NULL} \cup ({now - 1, now + 3} \cap (1..MaxMergeTime))

\* the caller takes the lock of the merge, loads the branch and calls merge(at)
MergeBegin(p, b, at) ==
    /\ procs[p].pc = "idle"
    /\ BranchExists(b)
    /\ Acquire(MERGE_LOCK, p)
    /\ procs' = [procs EXCEPT ![p] = [pc |-> "validate", branch |-> b, at |-> at,
                                      branched_from |-> GetBranch(b, FALSE).branched_from,
                                      validated_at |-> NULL]]
    /\ UNCHANGED <<edges, branched_from, registry, now, last, q, instance, diff>>

\* an exception leaves merge: the lock is released on the way out
MergeRaise(p, reason) ==
    /\ procs' = [procs EXCEPT ![p] = [pc |-> "done", outcome |-> "error",
                                      reason |-> reason, branch |-> @.branch,
                                      branched_from |-> @.branched_from,
                                      sources |-> {}]]
    /\ Release(MERGE_LOCK, p)
    /\ UNCHANGED <<edges, branched_from, registry, now, last, q, instance, diff>>

\* the Diff a merge builds of the branch object it was called on
MergeDiffOf(p) == DiffInit(procs[p].branch, procs[p].branched_from, NULL)

\* passed, _ = self.validate(), and the check of the default branch
MergeValidate(p) ==
    /\ procs[p].pc = "validate"
    /\ LET d == MergeDiffOf(p)
       IN  IF ~d.ok \/ DiffFails(edges, d)
           THEN MergeRaise(p, "diff failed")
           ELSE IF ~Validate(edges, d)
           THEN MergeRaise(p, "validation failed")
           ELSE IF procs[p].branch = default_branch
           THEN MergeRaise(p, "into itself")
           ELSE /\ procs' = [procs EXCEPT ![p].pc = "diff", ![p].validated_at = now]
                /\ UNCHANGED <<edges, branched_from, registry, now, last, q, locks, instance, diff>>

\* the ids of the edges whose replica a merge appends
MergeSources(es, d, c) ==
    LET node_part ==
            IF SelfNodeAction(es, d, c) \in {ADDED, REMOVED} THEN {c.n_self} ELSE {}
        attr_part ==
            IF ~HasAttrEntry(es, d, d.branch) \/ SelfAttrAction(es, d, c) = UPDATED
            THEN {}
            ELSE {c.r1_self}
        prop_part(pt) ==
            IF HasAttrEntry(es, d, d.branch) /\ ChoiceR2(c, pt) # 0
            THEN {ChoiceR2(c, pt)}
            ELSE {}
    IN  node_part \cup attr_part \cup prop_part(HAS_VALUE) \cup prop_part(IS_VISIBLE)

\* at = Timestamp(at); diff.get_nodes() and the query of the nodes of the default branch
MergeDiff(p) ==
    /\ procs[p].pc = "diff"
    /\ LET d == MergeDiffOf(p)
           at == IF procs[p].at = NULL THEN now ELSE procs[p].at
       IN  IF ~d.ok \/ DiffFails(edges, d)
           THEN MergeRaise(p, "diff failed")
           ELSE IF ~BranchInResults(edges, d, d.branch)
           THEN MergeRaise(p, "no changes")
           ELSE \E c \in DiffChoices(edges, d) :
                  /\ procs' = [procs EXCEPT ![p] =
                                  [pc |-> "write", branch |-> @.branch, at |-> at,
                                   branched_from |-> @.branched_from,
                                   validated_at |-> @.validated_at,
                                   d |-> d,
                                   appends |-> MergeAppends(edges, d, c, at),
                                   closes |-> MergeCloses(edges, d, c),
                                   sources |-> MergeSources(edges, d, c)]]
                  /\ UNCHANGED <<edges, branched_from, registry, now, last, q, locks, instance, diff>>

\* AddNodeToBranch stamps the edge when it runs
Stamped(appends) ==
    [i \in DOMAIN appends |->
        IF appends[i].label = IS_PART_OF /\ appends[i].status = ACTIVE
        THEN [appends[i] EXCEPT !.from = now]
        ELSE appends[i]]

\* the loop over the nodes, then diff.get_relationships() and the loop over them
MergeWrite(p) ==
    /\ procs[p].pc = "write"
    /\ LET written == edges \o Stamped(procs[p].appends)
       IN  \E rc \in RelDiffChoices(written, procs[p].d) :
              /\ StoreFits(written \o RelMergeAppends(written, procs[p].d, rc, procs[p].at))
              /\ edges' = written \o RelMergeAppends(written, procs[p].d, rc, procs[p].at)
              /\ procs' = [procs EXCEPT ![p] =
                              [pc |-> "close", branch |-> @.branch, at |-> @.at,
                               branched_from |-> @.branched_from,
                               validated_at |-> @.validated_at,
                               closes |-> @.closes
                                   \cup RelMergeCloses(written, procs[p].d, rc),
                               sources |-> @.sources]]
    /\ UNCHANGED <<branched_from, registry, now, last, q, locks, instance, diff>>

\* update_relationships_to(ids=rel_ids_to_update, to=at)
MergeClose(p) ==
    /\ procs[p].pc = "close"
    /\ edges' = update_relationships_to(edges, procs[p].closes, procs[p].at)
    /\ procs' = [procs EXCEPT ![p].pc = "rebase"]
    /\ UNCHANGED <<branched_from, registry, now, last, q, locks, instance, diff>>

\* self.rebase(); merge returns and the lock is released
MergeRebase(p) ==
    /\ procs[p].pc = "rebase"
    /\ now + 2 <= MaxMergeTime
    /\ branched_from' = Rebase(now)
    /\ registry' = Rebase(now)
    /\ now' = now + 2
    /\ procs' = [procs EXCEPT ![p] = [pc |-> "done", outcome |-> "ok",
                                      branch |-> @.branch,
                                      branched_from |-> @.branched_from,
                                      rebased |-> Rebase(now),
                                      sources |-> @.sources]]
    /\ Release(MERGE_LOCK, p)
    /\ UNCHANGED <<edges, last, q, instance, diff>>

\* a store with a branch that holds a change, and two callers of merge
InitMerge ==
    /\ edges = InitEdges \o <<Edge(HAS_VALUE, Attr1, "v1", BranchB, 3, ACTIVE)>>
    /\ branched_from = 2
    /\ registry = 2
    /\ now = 4
    /\ last = [op |-> "save", at |-> 3]
    /\ q = NoQuery
    /\ NoCallers
    /\ diff = NoDiff
    /\ roots = 1
    /\ branch_nodes = <<NewBranch(default_branch, 1, TRUE, FALSE),
                        NewBranch(GLOBAL_BRANCH_NAME, 1, FALSE, TRUE),
                        NewBranch(BranchB, 2, FALSE, FALSE)>>

NextMerge ==
    \/ \E b \in {BranchB, default_branch}, value \in Values : AttrSave(b, value, "true")
    \/ \E p \in Callers, at \in MergeCallAts : MergeBegin(p, BranchB, at)
    \/ \E p \in Callers : MergeValidate(p)
    \/ \E p \in Callers : MergeDiff(p)
    \/ \E p \in Callers : MergeWrite(p)
    \/ \E p \in Callers : MergeClose(p)
    \/ \E p \in Callers : MergeRebase(p)

SpecMerge == InitMerge /\ [][NextMerge]_vars

(* ------------------------------------------------------------------ *)
(* initialization(), step by step, for callers that run concurrently    *)
(* ------------------------------------------------------------------ *)
\* the database can hold MaxBranches Branch nodes
MaxBranches == 4

\* a check that finds no Root node whatever the database holds
RootsMissingAlways(n) == TRUE

\* get_root_node: len(roots) == 0
RootsMissing(n) == n = 0

\* the steps of initialization() inside `async with lock.registry.initialization()`
InInit == {"check", "root", "default", "global", "rest", "load"}

\* the graph, the clock, the queries and the Diff object, which initialization()
\* leaves alone
store == <<edges, branched_from, registry, now, last, q, diff>>

\* a call of get_root_node(initialize) that has read nothing yet; found is the length
\* of the list of Root nodes it read last
NotRead == 0 - 1

GetRootCall(initialize) ==
    [pc |-> "check", first_time |-> FALSE, initialize |-> initialize, found |-> NotRead,
     default_branch |-> ""]

\* async with lock.registry.initialization(): the caller waits for the lock
InitBegin(p) ==
    /\ procs[p].pc = "idle"
    /\ Acquire(INITIALIZATION_LOCK, p)
    /\ procs' = [procs EXCEPT ![p] = GetRootCall(TRUE)]
    /\ UNCHANGED <<store, instance, diff>>

\* initialize_registry(db) called on its own: initialize is not set and no lock is taken
RegistryBegin(p) ==
    /\ procs[p].pc = "idle"
    /\ procs' = [procs EXCEPT ![p] = GetRootCall(FALSE)]
    /\ UNCHANGED <<store, instance, locks>>

\* an exception leaves the `async with` block: the lock is released on the way out
InitRaise(p, reason) ==
    /\ procs' = [procs EXCEPT ![p] = [pc |-> "failed", first_time |-> @.first_time,
                                      initialize |-> @.initialize,
                                      found |-> IF @.pc = "check" THEN roots ELSE @.found,
                                      reason |-> reason]]
    /\ Release(INITIALIZATION_LOCK, p)
    /\ UNCHANGED <<store, instance, diff>>

\* get_root_node: roots = await Root.get_list(db=db) and the tests of its length
InitCheck(p) ==
    /\ procs[p].pc = "check"
    /\ IF RootsMissing(roots) /\ ~procs[p].initialize
       THEN InitRaise(p, "not initialized")
       ELSE IF RootsMissing(roots)
       THEN /\ procs' = [procs EXCEPT ![p].pc = "root", ![p].found = roots]
            /\ UNCHANGED <<store, instance, locks>>
       ELSE IF roots > 1
       THEN InitRaise(p, "more than 1 root node found")
       ELSE /\ procs' = [procs EXCEPT ![p].pc = "load", ![p].found = roots]
            /\ UNCHANGED <<store, instance, locks>>

\* config.SETTINGS.initial.default_branch: the names an installation gives its default
\* branch
InitialDefaultBranches == {default_branch, "trunk"}

\* first_time_initialization: create_root_node; the Root takes the configured name of
\* the default branch and the registry of the caller takes it from the Root
InitCreateRoot(p) ==
    /\ procs[p].pc = "root"
    /\ roots' = roots + 1
    /\ \E name \in InitialDefaultBranches :
           procs' = [procs EXCEPT ![p].pc = "default", ![p].default_branch = name]
    /\ UNCHANGED <<store, branch_nodes, locks>>

\* first_time_initialization: create_default_branch
InitCreateDefault(p) ==
    /\ procs[p].pc = "default"
    /\ branch_nodes' = Append(branch_nodes,
                            NewBranch(procs[p].default_branch, 1, TRUE, FALSE))
    /\ procs' = [procs EXCEPT ![p].pc = "global"]
    /\ UNCHANGED <<store, roots, locks>>

\* first_time_initialization: create_global_branch
InitCreateGlobal(p) ==
    /\ procs[p].pc = "global"
    /\ branch_nodes' = Append(branch_nodes, NewBranch(GLOBAL_BRANCH_NAME, 1, FALSE, TRUE))
    /\ procs' = [procs EXCEPT ![p].pc = "rest"]
    /\ UNCHANGED <<store, roots, locks>>

\* first_time_initialization: the schema, the accounts, the permissions and the
\* namespace; then get_root_node reads the roots again and returns the first
InitRest(p) ==
    /\ procs[p].pc = "rest"
    /\ procs' = [procs EXCEPT ![p].pc = "load", ![p].first_time = TRUE,
                              ![p].found = roots]
    /\ UNCHANGED <<store, instance, locks>>

\* the rest of initialize_registry, the indexes and initialize_tasks; the block ends
InitLoad(p) ==
    /\ procs[p].pc = "load"
    /\ procs' = [procs EXCEPT ![p].pc = "done"]
    /\ Release(INITIALIZATION_LOCK, p)
    /\ UNCHANGED <<store, instance, diff>>

\* a query of the block fails
InitFail(p) ==
    /\ procs[p].pc \in InInit
    /\ InitRaise(p, "database error")

\* create_branch(branch_name), once the process is initialized
CreateBranchNamed(branch_name) ==
    /\ \E p \in Callers : procs[p].pc = "done"
    /\ Len(branch_nodes) < MaxBranches
    /\ branch_nodes' = Append(branch_nodes, NewBranch(branch_name, 2, FALSE, FALSE))
    /\ UNCHANGED <<store, roots, conc>>

\* an empty database and two callers of initialization()
InitInstance ==
    /\ edges = <<>>
    /\ branched_from = NULL
    /\ registry = NULL
    /\ now = 1
    /\ last = [op |-> "init", at |-> 1]
    /\ q = NoQuery
    /\ NoCallers
    /\ diff = NoDiff
    /\ roots = 0
    /\ branch_nodes = <<>>

NextInstance ==
    \/ \E p \in Callers : InitBegin(p)
    \/ \E p \in Callers : InitCheck(p)
    \/ \E p \in Callers : InitCreateRoot(p)
    \/ \E p \in Callers : InitCreateDefault(p)
    \/ \E p \in Callers : InitCreateGlobal(p)
    \/ \E p \in Callers : InitRest(p)
    \/ \E p \in Callers : InitLoad(p)
    \/ \E p \in Callers : InitFail(p)
    \/ \E branch_name \in {BranchB, "b3"} : CreateBranchNamed(branch_name)

SpecInstance == InitInstance /\ [][NextInstance]_vars

\* the Root nodes of a database that was corrupted
MaxRoots == 2

\* a database that is empty, initialized or holds more than one Root node; callers of
\* initialization() and of initialize_registry()
InitRoot ==
    /\ edges = <<>>
    /\ branched_from = NULL
    /\ registry = NULL
    /\ now = 1
    /\ last = [op |-> "init", at |-> 1]
    /\ q = NoQuery
    /\ NoCallers
    /\ diff = NoDiff
    /\ roots \in 0..MaxRoots
    /\ branch_nodes = IF roots = 0
                      THEN <<>>
                      ELSE <<NewBranch(default_branch, 1, TRUE, FALSE),
                             NewBranch(GLOBAL_BRANCH_NAME, 1, FALSE, TRUE)>>

NextRoot ==
    \/ \E p \in Callers : InitBegin(p)
    \/ \E p \in Callers : RegistryBegin(p)
    \/ \E p \in Callers : InitCheck(p)
    \/ \E p \in Callers : InitCreateRoot(p)
    \/ \E p \in Callers : InitCreateDefault(p)
    \/ \E p \in Callers : InitCreateGlobal(p)
    \/ \E p \in Callers : InitRest(p)
    \/ \E p \in Callers : InitLoad(p)

SpecRoot == InitRoot /\ [][NextRoot]_vars

(* ------------------------------------------------------------------ *)
(* A Diff object and the calls made on it                               *)
(* ------------------------------------------------------------------ *)
\* the clock of the specification with a Diff object stops at MaxDiffTime
MaxDiffTime == 4
\* and MaxCalls calls are made on the object
MaxCalls == 3

Accessors == {"get_nodes", "get_relationships", "get_modified_paths", "get_conflicts",
              "has_conflict", "has_changes"}

NoResult == [none |-> TRUE]

\* the arguments of a Diff: an omitted one is NULL
DiffArgs == {NULL} \cup (1..MaxDiffTime)

\* Diff(branch, branch_only, diff_from, diff_to): the constructor raises ValueError or
\* leaves an object that has calculated nothing
DiffNew(b, branch_only, diff_from, diff_to) ==
    /\ diff.state = "none"
    /\ BranchExists(b)
    /\ LET d == [DiffInit(b, diff_from, diff_to) EXCEPT !.branch_only = branch_only]
       IN  diff' = IF ~d.ok
                   THEN [state |-> "error", branch |-> b,
                         diff_from |-> diff_from, diff_to |-> diff_to,
                         branched_from |-> GetBranch(b, FALSE).branched_from,
                         built_at |-> now]
                   ELSE [state |-> "ready", d |-> d, args |-> <<diff_from, diff_to>>,
                         branched_from |-> GetBranch(b, FALSE).branched_from,
                         built_at |-> now,
                         calculated_diff_nodes_at |-> NULL,
                         calculated_diff_rels_at |-> NULL,
                         nodes |-> <<>>, rels |-> <<>>,
                         node_queries |-> 0, rel_queries |-> 0,
                         calls |-> 0, call |-> "new", ret |-> NoResult,
                         first |-> [a \in Accessors |-> NoResult]]
    /\ UNCHANGED <<edges, branched_from, registry, now, last, q, conc, instance>>

\* get_nodes up to its return: _calculate_diff_nodes runs unless its time is set; it
\* sets the time when it ends, not when it raises
WithNodes(o) ==
    IF o.calculated_diff_nodes_at # NULL
    THEN o
    ELSE IF DiffFails(edges, o.d)
    THEN [o EXCEPT !.node_queries = IF @ < 2 THEN @ + 1 ELSE @]
    ELSE [o EXCEPT !.node_queries = IF @ < 2 THEN @ + 1 ELSE @,
                   !.nodes = edges,
                   !.calculated_diff_nodes_at = now]

\* get_relationships up to its return
WithRels(o) ==
    IF o.calculated_diff_rels_at # NULL
    THEN o
    ELSE [o EXCEPT !.rel_queries = IF @ < 2 THEN @ + 1 ELSE @,
                   !.rels = edges,
                   !.calculated_diff_rels_at = now]

\* the keys of Diff._results: a branch gets its key from whichever calculation files
\* something under it first
ResultKeys(o) ==
    {bn \in BranchNames :
        \/ o.calculated_diff_nodes_at # NULL /\ BranchInResults(o.nodes, o.d, bn)
        \/ o.calculated_diff_rels_at # NULL /\ RelInResults(o.rels, o.d, bn)}

\* what get_nodes returns: per key of _results, the attribute paths filed under it
NodesOf(o) == {<<bn, AttrPaths(o.nodes, o.d, bn)>> : bn \in ResultKeys(o)}

\* what get_relationships returns: per key of _results, the relationship paths
RelsOf(o) == {<<bn, RelPaths(o.rels, o.d, bn)>> : bn \in ResultKeys(o)}

\* get_modified_paths, from the stored results
PathsOf(o, bn) ==
    IF o.d.branch_only /\ bn # o.d.branch
    THEN {}
    ELSE AttrPaths(o.nodes, o.d, bn) \cup RelPaths(o.rels, o.d, bn)

ModifiedPathsOf(o) == {<<bn, PathsOf(o, bn)>> : bn \in {b \in BranchNames : PathsOf(o, b) # {}}}

\* get_conflicts, from the stored results
ConflictsOf(o) ==
    IF o.d.branch_only
    THEN {}
    ELSE IF Cardinality(ModifiedPathsOf(o)) < 2
    THEN {}
    ELSE PathsOf(o, o.d.branch) \cap PathsOf(o, default_branch)

\* the calculations a call runs before it answers
Calculated(o, accessor) ==
    IF accessor = "get_nodes" THEN WithNodes(o)
    ELSE IF accessor = "get_relationships" THEN WithRels(o)
    ELSE IF accessor \in {"get_conflicts", "has_conflict"} /\ o.d.branch_only THEN o
    ELSE WithRels(WithNodes(o))

\* a call raises when the calculation of the nodes did
Raises(o, accessor) ==
    /\ accessor # "get_relationships"
    /\ ~(accessor \in {"get_conflicts", "has_conflict"} /\ o.d.branch_only)
    /\ WithNodes(o).calculated_diff_nodes_at = NULL

Answer(o, accessor) ==
    IF accessor = "get_nodes" THEN [nodes |-> NodesOf(o)]
    ELSE IF accessor = "get_relationships" THEN [rels |-> RelsOf(o)]
    ELSE IF accessor = "get_modified_paths" THEN [paths |-> ModifiedPathsOf(o)]
    ELSE IF accessor = "get_conflicts" THEN [conflicts |-> ConflictsOf(o)]
    ELSE IF accessor = "has_conflict" THEN [flag |-> ConflictsOf(o) # {}]
    ELSE [flag |-> ModifiedPathsOf(o) # {}]

\* a call of one of the accessors of the Diff object
DiffCall(accessor) ==
    /\ diff.state = "ready"
    /\ diff.calls < MaxCalls
    /\ LET o == Calculated(diff, accessor)
           ret == IF Raises(diff, accessor) THEN [raised |-> TRUE] ELSE Answer(o, accessor)
       IN  diff' = [o EXCEPT !.calls = @ + 1,
                             !.call = accessor,
                             !.ret = ret,
                             !.first[accessor] = IF @ = NoResult THEN ret ELSE @]
    /\ UNCHANGED <<edges, branched_from, registry, now, last, q, conc, instance>>

\* a store that is empty or holds Node1, with or without the relationship, the
\* operations that change it, and one Diff object
InitDiff == InitRel

NextDiff ==
    \/ create_branch /\ now' <= MaxDiffTime
    \/ \E b \in BranchNames : AttrSave(b, "v1", "true") /\ now' <= MaxDiffTime
    \/ \E b \in BranchNames, is_protected \in Flags :
           RelUpdate(b, is_protected) /\ now' <= MaxDiffTime
    \/ \E b \in BranchNames, branch_only \in BOOLEAN, diff_from \in {NULL, 1} :
           DiffNew(b, branch_only, diff_from, NULL)
    \/ \E accessor \in Accessors : DiffCall(accessor)

SpecDiff == InitDiff /\ [][NextDiff]_vars

\* the same store, and a Diff object built with every choice of arguments
NextWindow ==
    \/ create_branch /\ now' <= MaxDiffTime
    \/ \E b \in BranchNames : AttrSave(b, "v1", "true") /\ now' <= MaxDiffTime
    \/ \E b \in BranchNames, branch_only \in BOOLEAN, diff_from, diff_to \in DiffArgs :
           DiffNew(b, branch_only, diff_from, diff_to)

SpecWindow == InitDiff /\ [][NextWindow]_vars

(* ------------------------------------------------------------------ *)
(* BaseAttribute._update of a whole attribute: value, flags and node    *)
(* properties                                                           *)
(* ------------------------------------------------------------------ *)
HAS_SOURCE == "HAS_SOURCE"
HAS_OWNER == "HAS_OWNER"

\* the accounts a source or an owner can be, and the id of none
Accounts == {"acc1", "acc2"}
NoId == ""

\* result rows of the query with include_source and include_owner: the flags
\* is_protected and, where there is one, the source and the owner
FullRows(es, br, at) ==
    [r1 : VisibleIds(es, br, at, HAS_ATTRIBUTE, Node1),
     r2 : VisibleIds(es, br, at, HAS_VALUE, Attr1),
     rel_isv : VisibleIds(es, br, at, IS_VISIBLE, Attr1),
     rel_isp : VisibleIds(es, br, at, IS_PROTECTED, Attr1),
     rel_source : OrNone(VisibleIds(es, br, at, HAS_SOURCE, Attr1)),
     rel_owner : OrNone(VisibleIds(es, br, at, HAS_OWNER, Attr1))]

OptionalScore(es, rel) == IF rel = 0 THEN 0 ELSE branch_score(es[rel])

FullRowScore(es, row) ==
    branch_score(es[row.r1]) + branch_score(es[row.r2]) + branch_score(es[row.rel_isv])
        + branch_score(es[row.rel_isp]) + OptionalScore(es, row.rel_source)
        + OptionalScore(es, row.rel_owner)

BestFullRows(es, br, at) ==
    {row \in FullRows(es, br, at) :
        \A other \in FullRows(es, br, at) : FullRowScore(es, other) <= FullRowScore(es, row)}

\* current_attr.get(prop).get("uuid"), or none
PropUuid(es, rel) == IF rel = 0 THEN NoId ELSE es[rel].dst

\* the attribute object in memory
AttrObj(b, value, is_visible, is_protected, source_id, owner_id) ==
    [pc |-> "attr", branch |-> b, value |-> value, is_visible |-> is_visible,
     is_protected |-> is_protected, source_id |-> source_id, owner_id |-> owner_id]

\* the state of the attribute that a row of the read holds
StoredState(es, row) ==
    [value |-> es[row.r2].dst, is_visible |-> es[row.rel_isv].dst,
     is_protected |-> es[row.rel_isp].dst,
     source_id |-> PropUuid(es, row.rel_source), owner_id |-> PropUuid(es, row.rel_owner)]

InMemoryState(attr) ==
    [value |-> attr.value, is_visible |-> attr.is_visible, is_protected |-> attr.is_protected,
     source_id |-> attr.source_id, owner_id |-> attr.owner_id]

\* a flag that is written again although the stored one is the same
UpdateFlagAlways(es0, es, rel, label, flag, branch, at) ==
    update_relationships_to(add_relationship(es, Attr1, flag, label, at, branch, ACTIVE),
                            Superseded(es0, rel, branch), at)

\* the loop over SUPPORTED_FLAGS, for one flag: es0 is the store the read saw
UpdateFlag(es0, es, rel, label, flag, branch, at) ==
    IF es0[rel].dst # flag
    THEN update_relationships_to(add_relationship(es, Attr1, flag, label, at, branch, ACTIVE),
                                 Superseded(es0, rel, branch), at)
    ELSE es

\* the loop over _node_properties, for one property
UpdateNodeProperty(es0, es, rel, label, prop_id, branch, at) ==
    IF prop_id # NoId /\ ~(rel # 0 /\ PropUuid(es0, rel) = prop_id)
    THEN update_relationships_to(add_relationship(es, Attr1, prop_id, label, at, branch, ACTIVE),
                                 IF rel # 0 THEN Superseded(es0, rel, branch) ELSE {}, at)
    ELSE es

\* the edges after _update(at) of the attribute object, given the row the read returned
UpdateAll(es, attr, at, current_attr) ==
    LET branch == get_branch_based_on_support_type(attr.branch)
        es2 == UpdateEdges(es, attr.branch, at, attr.value, attr.is_visible, current_attr)
        es3 == UpdateFlag(es, es2, current_attr.rel_isp, IS_PROTECTED, attr.is_protected,
                          branch, at)
        es4 == UpdateNodeProperty(es, es3, current_attr.rel_source, HAS_SOURCE,
                                  attr.source_id, branch, at)
    IN  UpdateNodeProperty(es, es4, current_attr.rel_owner, HAS_OWNER, attr.owner_id,
                           branch, at)

\* the time up to which the saves of a whole attribute are followed
MaxSaveTime == 5

\* an attribute object is built for branch b and its fields are assigned
AttrAssign(b, value, is_visible, is_protected, source_id, owner_id) ==
    /\ q = NoQuery
    /\ BranchExists(b)
    /\ q' = AttrObj(b, value, is_visible, is_protected, source_id, owner_id)
    /\ UNCHANGED <<edges, branched_from, registry, now, last, conc, instance, diff>>

\* one field of the object is assigned after a save
AttrSet(value, is_visible, is_protected, source_id, owner_id) ==
    /\ q # NoQuery
    /\ last.op = "save_attr" /\ last.outcome = "ok"
    /\ q = last.attr
    /\ LET changed == {f \in DOMAIN InMemoryState(q) :
                          InMemoryState(q)[f] #
                              InMemoryState(AttrObj(q.branch, value, is_visible, is_protected,
                                                    source_id, owner_id))[f]}
       IN  Cardinality(changed) = 1
    /\ q' = AttrObj(q.branch, value, is_visible, is_protected, source_id, owner_id)
    /\ UNCHANGED <<edges, branched_from, registry, now, last, conc, instance, diff>>

\* attr.save() of the object in memory
AttrSaveAll ==
    /\ q # NoQuery
    /\ now < MaxSaveTime
    /\ LET rows == BestFullRows(edges, GetBranch(q.branch, FALSE), now)
       IN  IF rows = {}
           THEN /\ last' = [op |-> "save_attr", at |-> now, outcome |-> "error"]
                /\ UNCHANGED edges
           ELSE \E current_attr \in rows :
                  LET es == UpdateAll(edges, q, now, current_attr)
                  IN  /\ StoreFits(es)
                      /\ edges' = es
                      /\ last' = [op |-> "save_attr", at |-> now, outcome |-> "ok",
                                  attr |-> q, stored |-> StoredState(edges, current_attr),
                                  wrote |-> es # edges,
                                  repeats |-> IF last.op = "save_attr" /\ last.outcome = "ok"
                                                  /\ last.attr = q
                                              THEN IF last.wrote THEN "a save that wrote"
                                                   ELSE "a save that wrote nothing"
                                              ELSE "none"]
    /\ now' = now + 1
    /\ UNCHANGED <<branched_from, registry, q, conc, instance, diff>>

\* the attribute on the default branch, with or without a source
InitSaveEdges(source_id) ==
    <<Edge(HAS_ATTRIBUTE, Node1, Attr1, default_branch, 1, ACTIVE),
      Edge(HAS_VALUE, Attr1, "v0", default_branch, 1, ACTIVE),
      Edge(IS_VISIBLE, Attr1, "true", default_branch, 1, ACTIVE),
      Edge(IS_PROTECTED, Attr1, "false", default_branch, 1, ACTIVE)>>
    \o (IF source_id = NoId THEN <<>>
        ELSE <<Edge(HAS_SOURCE, Attr1, source_id, default_branch, 1, ACTIVE)>>)

InitSave ==
    /\ edges \in {InitSaveEdges(NoId), InitSaveEdges("acc1")}
    /\ branched_from = NULL
    /\ registry = NULL
    /\ now = 2
    /\ last = [op |-> "init", at |-> 1]
    /\ q = NoQuery
    /\ NoCallers
    /\ diff = NoDiff
    /\ Initialized

NextSave ==
    \/ create_branch /\ now' <= MaxSaveTime
    \/ \E b \in BranchNames, value \in Values, is_visible \in Flags, is_protected \in Flags,
          source_id \in Accounts \cup {NoId}, owner_id \in {NoId, "acc1"} :
           AttrAssign(b, value, is_visible, is_protected, source_id, owner_id)
    \/ \E value \in Values, is_visible \in Flags, is_protected \in Flags,
          source_id \in Accounts \cup {NoId}, owner_id \in {NoId, "acc1"} :
           AttrSet(value, is_visible, is_protected, source_id, owner_id)
    \/ AttrSaveAll

SpecSave == InitSave /\ [][NextSave]_vars

(* ------------------------------------------------------------------ *)
(* BaseAttribute.__init__: default value and default flags, to_db and   *)
(* from_db, and the read of a node that was saved                       *)
(* ------------------------------------------------------------------ *)
\* Python values: None, or a string
NoneV == [t |-> "none"]
Str(v) == [t |-> "str", v |-> v]

\* a flag that was not given
NoFlag == "none"

\* to_db: None is stored as the string NULL, another value as serialize gives it
to_db(value) == IF value = NoneV THEN "NULL" ELSE value.v

\* from_db: the string NULL is None, another value is what deserialize gives
from_db(value) == IF value = Str("NULL") THEN NoneV ELSE value

\* an attribute that keeps None whatever the schema says
AttrInitNoDefault(data, default_value) ==
    [value |-> from_db(data.value),
     is_visible |-> IF data.is_visible = NoFlag THEN "true" ELSE data.is_visible,
     is_protected |-> IF data.is_protected = NoFlag THEN "false" ELSE data.is_protected]

\* __init__(data=...) of an attribute whose schema has default_value
AttrInit(data, default_value) ==
    LET value == from_db(data.value)
    IN  [value |-> IF value = NoneV /\ default_value # NoneV THEN default_value ELSE value,
         is_visible |-> IF data.is_visible = NoFlag THEN "true" ELSE data.is_visible,
         is_protected |-> IF data.is_protected = NoFlag THEN "false" ELSE data.is_protected]

\* the edges the attribute of a new node is stored with
AttrCreateEdges(b, at, attr) ==
    <<Edge(IS_PART_OF, Node1, b, b, at, ACTIVE),
      Edge(HAS_ATTRIBUTE, Node1, Attr1, b, at, ACTIVE),
      Edge(HAS_VALUE, Attr1, to_db(attr.value), b, at, ACTIVE),
      Edge(IS_VISIBLE, Attr1, attr.is_visible, b, at, ACTIVE),
      Edge(IS_PROTECTED, Attr1, attr.is_protected, b, at, ACTIVE)>>

\* the data a row of the read hands to __init__
RowData(es, row) ==
    [value |-> Str(es[row.r2].dst), is_visible |-> es[row.rel_isv].dst,
     is_protected |-> es[row.rel_isp].dst]

\* the attribute objects NodeManager.get_one can return for the node at (br, at)
ReadAttr(es, br, at, default_value) ==
    {AttrInit(RowData(es, row), default_value) : row \in BestFullRows(es, br, at)}

\* what the caller of new() can give for the attribute, and what a schema can
\* define as default_value
GivenValues == {NoneV, Str("v0"), Str("NULL")}
GivenFlags == {NoFlag, "true", "false"}
DefaultValues == {NoneV, Str("d0"), Str("NULL")}

\* the time up to which the reads of the new node are followed
MaxReadTime == 5

NotReadYet == [branch |-> "", at |-> NULL, attrs |-> {}]

\* Node.new(...) and save() on branch b
NodeNew(b, data, default_value) ==
    /\ q = NoQuery
    /\ edges = <<>>
    /\ BranchExists(b)
    /\ now < MaxReadTime
    /\ edges' = AttrCreateEdges(b, now, AttrInit(data, default_value))
    /\ q' = [pc |-> "node", branch |-> b, created_at |-> now, data |-> data,
             default_value |-> default_value, attr |-> AttrInit(data, default_value),
             read |-> NotReadYet]
    /\ last' = [op |-> "node_new", branch |-> b, at |-> now]
    /\ now' = now + 1
    /\ UNCHANGED <<branched_from, registry, conc, instance, diff>>

\* NodeManager.get_one(id) on branch b
NodeGetOne(b) ==
    /\ q # NoQuery
    /\ BranchExists(b)
    /\ now < MaxReadTime
    /\ q' = [q EXCEPT !.read = [branch |-> b, at |-> now,
                                attrs |-> ReadAttr(edges, GetBranch(b, FALSE), now,
                                                   q.default_value)]]
    /\ last' = [op |-> "get_one", branch |-> b, at |-> now]
    /\ now' = now + 1
    /\ UNCHANGED <<edges, branched_from, registry, conc, instance, diff>>

InitDefaults ==
    /\ edges = <<>>
    /\ branched_from = NULL
    /\ registry = NULL
    /\ now = 2
    /\ last = [op |-> "init", at |-> 1]
    /\ q = NoQuery
    /\ NoCallers
    /\ diff = NoDiff
    /\ Initialized

NextDefaults ==
    \/ create_branch /\ now' <= MaxReadTime
    \/ \E b \in BranchNames, value \in GivenValues, is_visible \in GivenFlags,
          is_protected \in GivenFlags, default_value \in DefaultValues :
           NodeNew(b, [value |-> value, is_visible |-> is_visible,
                       is_protected |-> is_protected], default_value)
    \/ \E b \in BranchNames : NodeGetOne(b)

SpecDefaults == InitDefaults /\ [][NextDefaults]_vars

(* ------------------------------------------------------------------ *)
(* Authentication: password login, API key, refresh token and JWT       *)
(* access token of one account                                          *)
(* ------------------------------------------------------------------ *)
AccountStatuses == {"active", "inactive"}

\* config.SETTINGS.security: the lifetimes of the two tokens
access_token_lifetime == 2
refresh_token_lifetime == 3

\* the time up to which the calls are followed
MaxAuthTime == 5

\* a token that was signed with the secret key
Token(type, exp) == [type |-> type, exp |-> exp, signed |-> TRUE]

\* a token that jwt.decode rejects for another reason than its expiry
ForgedToken == [type |-> "access", exp |-> MaxAuthTime + 1, signed |-> FALSE]

\* jwt.decode: the error it raises, or none
Decode(token) ==
    IF ~token.signed THEN "Invalid token"
    ELSE IF token.exp < now THEN "Expired Signature"
    ELSE "ok"

AuthResult(op, outcome, reason) ==
    [op |-> op, outcome |-> outcome, reason |-> reason, status |-> q.status, at |-> now]

AuthCallDone(op, outcome, reason) ==
    /\ last' = AuthResult(op, outcome, reason)
    /\ UNCHANGED <<edges, branched_from, registry, now, conc, instance, diff>>

\* validate_active_account: the error it raises, or none
validate_active_account ==
    IF q.status # "active" THEN "This account has been deactivated" ELSE "ok"

\* a validation of the access token that also looks at the account
ValidateJwtAccessTokenChecked(token) ==
    /\ IF Decode(token) # "ok"
       THEN AuthCallDone("jwt_access", "AuthorizationError", Decode(token))
       ELSE IF validate_active_account # "ok"
       THEN AuthCallDone("jwt_access", "AuthorizationError", validate_active_account)
       ELSE IF token.type = "access"
       THEN AuthCallDone("jwt_access", "session", "")
       ELSE AuthCallDone("jwt_access", "AuthorizationError", "not an access token")
    /\ UNCHANGED q

\* validate_jwt_access_token(token)
ValidateJwtAccessToken(token) ==
    /\ IF Decode(token) # "ok"
       THEN AuthCallDone("jwt_access", "AuthorizationError", Decode(token))
       ELSE IF token.type = "access"
       THEN AuthCallDone("jwt_access", "session", "")
       ELSE AuthCallDone("jwt_access", "AuthorizationError", "not an access token")
    /\ UNCHANGED q

\* validate_jwt_refresh_token(token)
ValidateJwtRefreshToken(token) ==
    /\ IF Decode(token) # "ok"
       THEN AuthCallDone("jwt_refresh", "AuthorizationError", Decode(token))
       ELSE IF validate_active_account # "ok"
       THEN AuthCallDone("jwt_refresh", "AuthorizationError", validate_active_account)
       ELSE IF token.type = "refresh"
       THEN AuthCallDone("jwt_refresh", "refresh data", "")
       ELSE AuthCallDone("jwt_refresh", "AuthorizationError", "not a refresh token")
    /\ UNCHANGED q

\* validate_api_key(token): known tells whether validate_token finds the account
ValidateApiKey(known) ==
    /\ IF ~known
       THEN AuthCallDone("api_key", "AuthorizationError", "Invalid token")
       ELSE IF validate_active_account # "ok"
       THEN AuthCallDone("api_key", "AuthorizationError", validate_active_account)
       ELSE AuthCallDone("api_key", "session", "")
    /\ UNCHANGED q

\* authenticate_with_password(credentials): the account is found by its name or
\* not, and the password matches or not
AuthenticateWithPassword(found, valid_credentials) ==
    IF ~found
    THEN AuthCallDone("password", "NodeNotFoundError", "no such user") /\ UNCHANGED q
    ELSE IF q.status # "active"
    THEN AuthCallDone("password", "AuthorizationError", "not allowed to login")
             /\ UNCHANGED q
    ELSE IF ~valid_credentials
    THEN AuthCallDone("password", "AuthorizationError", "Incorrect password")
             /\ UNCHANGED q
    ELSE /\ AuthCallDone("password", "tokens", "")
         /\ q' = [q EXCEPT !.tokens = @ \cup {Token("access", now + access_token_lifetime),
                                              Token("refresh", now + refresh_token_lifetime)}]

\* the account is activated or deactivated
SetAccountStatus(status) ==
    /\ q.status # status
    /\ q' = [q EXCEPT !.status = status]
    /\ last' = [op |-> "set_status", at |-> now]
    /\ UNCHANGED <<edges, branched_from, registry, now, conc, instance, diff>>

\* time passes
AuthTick ==
    /\ now < MaxAuthTime
    /\ now' = now + 1
    /\ last' = [op |-> "tick", at |-> now]
    /\ UNCHANGED <<edges, branched_from, registry, q, conc, instance, diff>>

InitAuth ==
    /\ edges = <<>>
    /\ branched_from = NULL
    /\ registry = NULL
    /\ now = 1
    /\ last = [op |-> "init", at |-> 1]
    /\ q \in [pc : {"auth"}, status : AccountStatuses, tokens : {{}}]
    /\ NoCallers
    /\ diff = NoDiff
    /\ Initialized

NextAuth ==
    \/ \E found \in BOOLEAN, valid_credentials \in BOOLEAN :
           AuthenticateWithPassword(found, valid_credentials)
    \/ \E known \in BOOLEAN : ValidateApiKey(known)
    \/ \E token \in q.tokens \cup {ForgedToken} : ValidateJwtRefreshToken(token)
    \/ \E token \in q.tokens \cup {ForgedToken} : ValidateJwtAccessToken(token)
    \/ \E status \in AccountStatuses : SetAccountStatus(status)
    \/ AuthTick

SpecAuth == InitAuth /\ [][NextAuth]_vars

(* ------------------------------------------------------------------ *)
(* InfrahubClient.filters / InfrahubClientSync.filters without offset   *)
(* and limit: the loop over the pages                                   *)
(* ------------------------------------------------------------------ *)
\* the most nodes of the kind that match the filters, and the largest pagination_size
MaxCount == 4
MaxPageSize == 2

Clients == {"InfrahubClient", "InfrahubClientSync"}

\* the nodes of the kind that match the filters, in the order of the server
Matching(count) == [i \in 1..count |-> i]

Min(a, b) == IF a <= b THEN a ELSE b

\* response[schema.kind]["edges"] of the query with this offset and limit
ResponseEdges(count, offset, limit) ==
    IF offset >= count THEN <<>> ELSE SubSeq(Matching(count), offset + 1, Min(count, offset + limit))

\* a loop that extends the list with the nodes of each page
ProcessPageExtending(nodes, response) == nodes \o response

\* nodes, related_nodes = process_nodes_and_relationships(response=response, ...):
\* the nodes of the response
ProcessPage(nodes, response) == response

\* filters(kind, **kwargs) is called with neither offset nor limit
FiltersBegin(client, count, pagination_size) ==
    /\ q = NoQuery
    /\ q' = [pc |-> "page", client |-> client, count |-> count,
             pagination_size |-> pagination_size, page_number |-> 1,
             has_remaining_items |-> TRUE, nodes |-> <<>>]
    /\ UNCHANGED <<edges, branched_from, registry, now, last, conc, instance, diff>>

\* one turn of `while has_remaining_items`
FiltersPage ==
    /\ q # NoQuery /\ q.pc = "page"
    /\ q.has_remaining_items
    /\ LET page_offset == (q.page_number - 1) * q.pagination_size
           response == ResponseEdges(q.count, page_offset, q.pagination_size)
           remaining_items == q.count - (page_offset + q.pagination_size)
       IN  q' = [q EXCEPT !.nodes = ProcessPage(@, response),
                          !.has_remaining_items = ~(remaining_items < 0),
                          !.page_number = @ + 1]
    /\ UNCHANGED <<edges, branched_from, registry, now, last, conc, instance, diff>>

\* return nodes
FiltersReturn ==
    /\ q # NoQuery /\ q.pc = "page"
    /\ ~q.has_remaining_items
    /\ last' = [op |-> "filters", client |-> q.client, count |-> q.count,
                pagination_size |-> q.pagination_size, nodes |-> q.nodes,
                pages |-> q.page_number - 1]
    /\ q' = NoQuery
    /\ UNCHANGED <<edges, branched_from, registry, now, conc, instance, diff>>

InitPages ==
    /\ edges = <<>>
    /\ branched_from = NULL
    /\ registry = NULL
    /\ now = 1
    /\ last = [op |-> "init", at |-> 1]
    /\ q = NoQuery
    /\ NoCallers
    /\ diff = NoDiff
    /\ Initialized

NextPages ==
    \/ \E client \in Clients, count \in 0..MaxCount, pagination_size \in 1..MaxPageSize :
           FiltersBegin(client, count, pagination_size)
    \/ FiltersPage
    \/ FiltersReturn

SpecPages == InitPages /\ [][NextPages]_vars

(* ------------------------------------------------------------------ *)
(* InfrahubClient.execute_graphql / InfrahubClientSync.execute_graphql: *)
(* the loop around the POST                                             *)
(* ------------------------------------------------------------------ *)
\* what the server does with a POST: no connection, a 200 with data, a 401 or 403,
\* or another error status
ServerStates == {"unreachable", "ok", "denied", "failing"}

\* the attempts of one call are counted up to this number
MaxAttempts == 3

\* execute_graphql(query) of a client built with retry_on_failure
ExecCall(retry_on_failure, raise_for_error, server) ==
    [pc |-> "attempt", retry_on_failure |-> retry_on_failure,
     raise_for_error |-> raise_for_error, server |-> server,
     attempts |-> 0, seen |-> "nothing", outcome |-> "none"]

\* the call ends: an exception leaves it or it returns
ExecDone(outcome) ==
    q' = [q EXCEPT !.pc = "done", !.outcome = outcome, !.seen = q.server,
                   !.attempts = Min(@ + 1, MaxAttempts)]

\* the call goes on with the statement at pc
ExecGoOn(pc) ==
    q' = [q EXCEPT !.pc = pc, !.seen = q.server, !.attempts = Min(@ + 1, MaxAttempts)]

\* a loop that gives up after an unreachable server whatever retry_on_failure is
ExecAttemptNoRetry ==
    /\ q.pc = "attempt"
    /\ IF q.server = "unreachable" THEN ExecDone("ServerNotReacheableError")
       ELSE IF q.server = "ok" THEN ExecDone("data")
       ELSE IF q.server = "denied" /\ q.raise_for_error THEN ExecDone("AuthenticationError")
       ELSE ExecDone("GraphQLError")
    /\ UNCHANGED <<edges, branched_from, registry, now, last, conc, instance, diff>>

\* one turn of `while retry`: the POST and what follows it
ExecAttempt ==
    /\ q.pc = "attempt"
    /\ IF q.server = "unreachable"
       THEN IF q.retry_on_failure
            THEN ExecGoOn("sleep")
            ELSE ExecDone("ServerNotReacheableError")
       ELSE IF q.server = "ok"
       THEN ExecDone("data")
       ELSE IF ~q.raise_for_error
       THEN ExecDone("GraphQLError")
       ELSE IF q.server = "denied"
       THEN ExecDone("AuthenticationError")
       ELSE IF q.retry_on_failure
       THEN ExecGoOn("attempt")
       ELSE ExecDone("GraphQLError")
    /\ UNCHANGED <<edges, branched_from, registry, now, last, conc, instance, diff>>

\* sleep(self.retry_delay) returns
ExecSleep ==
    /\ q.pc = "sleep"
    /\ q' = [q EXCEPT !.pc = "attempt"]
    /\ UNCHANGED <<edges, branched_from, registry, now, last, conc, instance, diff>>

\* the server or the network changes
ServerChange(server) ==
    /\ q.server # server
    /\ q' = [q EXCEPT !.server = server]
    /\ UNCHANGED <<edges, branched_from, registry, now, last, conc, instance, diff>>

InitRetry ==
    /\ edges = <<>>
    /\ branched_from = NULL
    /\ registry = NULL
    /\ now = 1
    /\ last = [op |-> "init", at |-> 1]
    /\ q \in {ExecCall(retry_on_failure, raise_for_error, server) :
                 retry_on_failure \in BOOLEAN, raise_for_error \in BOOLEAN,
                 server \in ServerStates}
    /\ NoCallers
    /\ diff = NoDiff
    /\ Initialized

NextRetry ==
    \/ ExecAttempt
    \/ ExecSleep
    \/ \E server \in ServerStates : ServerChange(server)

\* the call runs on: a POST that can be made is made, a sleep ends
SpecRetry == InitRetry /\ [][NextRetry]_vars /\ WF_vars(ExecAttempt) /\ WF_vars(ExecSleep)

(* ------------------------------------------------------------------ *)
(* DiffRelationshipQuery.get_results on the rows a query returned       *)
(* ------------------------------------------------------------------ *)
\* the paths of one query
MaxPaths == 2

\* the uuids of three nodes: the first 8 characters and the rest
NodeUuids ==
    {[head |-> "11111111", tail |-> "-aaaa"],
     [head |-> "22222222", tail |-> "-aaaa"],
     [head |-> "33333333", tail |-> "-bbbb"]}

\* uuid[8:]
DropFirst8(uuid) == uuid.tail

\* a path (sn)-[r1]->(rel)<-[r2]-(dn): its two endpoints, the name of the relationship
\* and the branch and status that r1 and r2 share
MatchedPaths ==
    [nodes : {S \in SUBSET NodeUuids : Cardinality(S) = 2},
     name : {"member"},
     branch : BranchNames,
     status : Statuses]

\* the pattern matches a path once from each endpoint
Traversals(path) ==
    {[sn |-> a, dn |-> b, path |-> path] : a, b \in path.nodes} \ 
        {[sn |-> a, dn |-> a, path |-> path] : a \in path.nodes}

\* the element ids of the nodes and edges of a row: the same for both traversals
IdsSet(row) == row.path

\* QueryResult.branch_score of a row: r1 and r2 are on one branch
RelRowScore(row) ==
    IF row.path.branch = default_branch THEN 2 ELSE 4

\* a key that keeps the whole uuid of each endpoint
AttrKeyWholeUuid(row) ==
    [branch |-> row.path.branch, nodes |-> {row.sn, row.dn}, rel_name |-> row.path.name]

\* attr_key: the branch of r1, the sorted uuids of the endpoints without their first 8
\* characters, and the name of the relationship
AttrKey(row) ==
    [branch |-> row.path.branch,
     nodes |-> {DropFirst8(row.sn), DropFirst8(row.dn)},
     rel_name |-> row.path.name]

\* the rows that are not skipped: the first of each set of element ids
Processed(results) ==
    {i \in DOMAIN results :
        \A j \in 1..(i - 1) : IdsSet(results[j]) # IdsSet(results[i])}

\* get_results: per key the first row of the highest branch score
GetResults(results) ==
    {i \in Processed(results) :
        \A j \in Processed(results) :
            AttrKey(results[j]) = AttrKey(results[i]) =>
                \/ RelRowScore(results[j]) < RelRowScore(results[i])
                \/ RelRowScore(results[j]) = RelRowScore(results[i]) /\ i <= j}

\* the rows the query has still to return
Pending ==
    UNION {Traversals(path) : path \in q.paths}
        \ {q.results[i] : i \in DOMAIN q.results}

\* the database returns the next row, in any order
ResultArrives(row) ==
    /\ q.pc = "query"
    /\ row \in Pending
    /\ q' = [q EXCEPT !.results = Append(@, row)]
    /\ UNCHANGED <<edges, branched_from, registry, now, last, conc, instance, diff>>

\* get_results is consumed
CallGetResults ==
    /\ q.pc = "query"
    /\ Pending = {}
    /\ q' = [q EXCEPT !.pc = "emitted", !.emitted = GetResults(q.results)]
    /\ UNCHANGED <<edges, branched_from, registry, now, last, conc, instance, diff>>

InitResults ==
    /\ edges = <<>>
    /\ branched_from = NULL
    /\ registry = NULL
    /\ now = 1
    /\ last = [op |-> "init", at |-> 1]
    /\ \E paths \in SUBSET MatchedPaths :
           /\ paths # {}
           /\ Cardinality(paths) <= MaxPaths
           /\ q = [pc |-> "query", paths |-> paths, results |-> <<>>, emitted |-> {}]
    /\ NoCallers
    /\ diff = NoDiff
    /\ Initialized

NextResults ==
    \/ \E row \in UNION {Traversals(path) : path \in MatchedPaths} : ResultArrives(row)
    \/ CallGetResults

SpecResults == InitResults /\ [][NextResults]_vars

(* ------------------------------------------------------------------ *)
(* The filters applied to one edge, for every branch, time and edge     *)
(* ------------------------------------------------------------------ *)
QueryTimes == 1..MaxQueryTime

QueryInputs ==
    [br : [name : BranchNames, branched_from : QueryTimes, ephemeral_rebase : BOOLEAN],
     at : QueryTimes,
     e : [branch : BranchNames, from : QueryTimes, to : 0..MaxQueryTime, status : Statuses],
     times : {{}},
     node_filter : {"none"},
     path_filter : {"none"},
     rel_filters : {[state |-> "none"]}]

Verdict(accepted) == IF accepted THEN "accept" ELSE "reject"

CallGetBranchesAndTimesToQuery ==
    /\ q.times = {}
    /\ LET bt == GetBranchesAndTimesToQuery(q.br, q.at)
       IN  q' = [q EXCEPT !.times = {<<n, bt[n]>> : n \in DOMAIN bt}]
    /\ UNCHANGED <<edges, branched_from, registry, now, last, conc, instance, diff>>

CallQueryFilterBranchToNode ==
    /\ q.node_filter = "none"
    /\ q' = [q EXCEPT !.node_filter = Verdict(QueryFilterBranchToNode(q.br, q.at, q.e))]
    /\ UNCHANGED <<edges, branched_from, registry, now, last, conc, instance, diff>>

CallQueryFilterPath ==
    /\ q.path_filter = "none"
    /\ q' = [q EXCEPT !.path_filter = Verdict(QueryFilterPath(q.br, q.at, q.e))]
    /\ UNCHANGED <<edges, branched_from, registry, now, last, conc, instance, diff>>

\* the aliases of a query that joins two edges
RelLabels == <<"r1", "r2">>

\* get_query_filter_relationships(rel_labels), each filter applied to the edge
CallQueryFilterRelationships(include_outside_parentheses) ==
    /\ q.rel_filters.state = "none"
    /\ LET r == QueryFilterRelationships(q.br, q.at, RelLabels, include_outside_parentheses)
       IN  q' = [q EXCEPT !.rel_filters =
                    [state |-> "done",
                     include_outside_parentheses |-> include_outside_parentheses,
                     filters |-> r.filters,
                     verdicts |-> [i \in DOMAIN r.filters |->
                                      Verdict(FiltersPerRel(r.params, q.e))],
                     params |-> r.params]]
    /\ UNCHANGED <<edges, branched_from, registry, now, last, conc, instance, diff>>

InitFilter ==
    /\ edges = InitEdges
    /\ branched_from = NULL
    /\ registry = NULL
    /\ now = 2
    /\ last = [op |-> "init", at |-> 1]
    /\ q \in QueryInputs
    /\ NoCallers
    /\ diff = NoDiff
    /\ Initialized

NextFilter ==
    \/ CallGetBranchesAndTimesToQuery
    \/ CallQueryFilterBranchToNode
    \/ CallQueryFilterPath
    \/ \E include_outside_parentheses \in BOOLEAN :
           CallQueryFilterRelationships(include_outside_parentheses)

SpecFilter == InitFilter /\ [][NextFilter]_vars

(* ------------------------------------------------------------------ *)
(* Properties                                                           *)
(* ------------------------------------------------------------------ *)

\* C1: get_branches_and_times_to_query returns {default: t} for the default branch;
\* for another branch B it returns {default: t_parent, B: t}, where t_parent is t when
\* B.ephemeral_rebase is set or t < B.branched_from, and B.branched_from otherwise.
C1_BranchesAndTimes ==
    q.times # {} =>
        IF q.br.name = default_branch
        THEN q.times = {<<default_branch, q.at>>}
        ELSE LET t_parent == IF q.br.ephemeral_rebase \/ q.at < q.br.branched_from
                             THEN q.at
                             ELSE q.br.branched_from
             IN  q.times = {<<default_branch, t_parent>>, <<q.br.name, q.at>>}

C1_Witness ==
    /\ q.times # {}
    /\ q.br.name # default_branch
    /\ ~q.br.ephemeral_rebase
    /\ q.at < q.br.branched_from
    /\ <<default_branch, q.at>> \in q.times

\* what the claim C2 takes the filter to accept: an ACTIVE edge of a queried branch
\* whose interval holds the time queried for that branch
ClaimedAccept(br, at, e) ==
    \E b \in DOMAIN GetBranchesAndTimesToQuery(br, at) :
        LET t_br == GetBranchesAndTimesToQuery(br, at)[b]
        IN  /\ e.branch = b
            /\ e.from <= t_br
            /\ (e.to = NULL \/ e.to >= t_br)
            /\ e.status = ACTIVE

BranchTimeAccept(br, at, e) ==
    \E b \in DOMAIN GetBranchesAndTimesToQuery(br, at) :
        LET t_br == GetBranchesAndTimesToQuery(br, at)[b]
        IN  /\ e.branch = b
            /\ e.from <= t_br
            /\ (e.to = NULL \/ e.to >= t_br)

SaveStep ==
    /\ last' # last
    /\ last'.op = "save"
    /\ last'.outcome = "ok"
    /\ last'.value_changed

\* C3: after a save of an attribute at time t on branch B, a read at (B, t') with
\* t' < t returns the prior value and a read with t' >= t returns exactly the new
\* value, t' = t included.
C3_ReadAfterSave ==
    [][SaveStep =>
        \A t \in Times :
            LET br == GetBranch(last'.branch, FALSE)
            IN  /\ t < last'.at => ReadValues(edges', br, t) = ReadValues(edges, br, t)
                /\ t >= last'.at => ReadValues(edges', br, t) = {last'.value}]_vars

\* a step in which save stored a new value on a branch other than the default one
SaveOnBranchStep == SaveStep /\ last'.branch # default_branch

\* C4: a save on a non-default branch B modifies no edge whose branch is not B;
\* afterwards a read on the default branch returns what it returned before, a read on
\* B at or after the save time returns the new value, and a read on B at a time
\* before B.branched_from returns what it returned before.
C4_BranchIsolation ==
    [][SaveOnBranchStep =>
        LET B    == GetBranch(last'.branch, FALSE)
            main == GetBranch(default_branch, FALSE)
        IN  /\ \A i \in Ids(edges) :
                   edges[i].branch # last'.branch => edges'[i] = edges[i]
            /\ \A t \in Times :
                   /\ ReadValues(edges', main, t) = ReadValues(edges, main, t)
                   /\ t >= last'.at => ReadValues(edges', B, t) = {last'.value}
                   /\ t < branched_from =>
                          ReadValues(edges', B, t) = ReadValues(edges, B, t)]_vars

MergeStep == last' # last /\ last'.op = "merge"

\* C6: when the conflict set of branch B is not empty, merge(B) fails with an error,
\* appends no edge, closes no edge and leaves B.branched_from as it was.
C6_ConflictRefusesMerge ==
    [][(/\ MergeStep
        /\ DiffInit(last'.branch, NULL, NULL).ok
        /\ GetConflicts(edges, DiffInit(last'.branch, NULL, NULL)) # {})
       => /\ last'.outcome = "error"
          /\ edges' = edges
          /\ branched_from' = branched_from
          /\ registry' = registry]_vars

C6_Witness ==
    /\ last.op = "merge"
    /\ last.outcome = "error"
    /\ last.reason = "validation failed"
    /\ GetConflicts(edges, [DiffInit(last.branch, NULL, NULL) EXCEPT !.diff_to = last.start]) # {}

\* C7: when a step of merge(B) fails after the first write was issued, the default
\* branch is as it was before the merge started (no replicated edge remains, no edge
\* stays closed) and B.branched_from is not advanced.
C7_FailedMergeRollsBack ==
    [][(MergeStep /\ last'.outcome = "backend failure" /\ last'.fail > 1)
       => /\ edges' = edges
          /\ branched_from' = branched_from
          /\ registry' = registry]_vars

\* the state right after a merge that succeeded
MergedOk == last.op = "merge" /\ last.outcome = "ok"

\* C8: after a successful merge(B), the diff of B from its new branched_from up to
\* the current time reports nothing on B: no node, no attribute and no property.
C8_DiffEmptyAfterMerge ==
    MergedOk =>
        LET d == DiffInit(last.branch, NULL, NULL)
        IN  /\ d.ok
            /\ ~BranchInResults(edges, d, last.branch)
            /\ ~HasAttrEntry(edges, d, last.branch)
            /\ ModifiedPaths(edges, d, last.branch) = {}

\* a step of merge that succeeded
MergeOkStep == MergeStep /\ last'.outcome = "ok"

\* what a read of property pt of the attribute can return
ReadProperty(es, br, at, pt) ==
    IF pt = HAS_VALUE THEN ReadValues(es, br, at) ELSE ReadFlags(es, br, at)

\* the state the merged branch held for property pt: the vertex of its edge in the
\* diff when that edge is ACTIVE, nothing when it is DELETED
HeldByBranch(es, c, pt) ==
    IF es[ChoiceR2(c, pt)].status = ACTIVE THEN {es[ChoiceR2(c, pt)].dst} ELSE {}

\* C9: after a successful merge(B) at time t, for every modified path of B the state B
\* held for the path is the one visible on the default branch at t, and the default
\* branch's superseded edge for the path is closed at t.
C9_MergedStateVisible ==
    [][MergeOkStep =>
        \A p \in last'.paths :
            /\ ReadProperty(edges', GetBranch(default_branch, FALSE), last'.at, p[4])
                   = HeldByBranch(edges, last'.choice, p[4])
            /\ \A i \in Ids(edges) :
                   (/\ edges[i].label = p[4]
                    /\ edges[i].branch = default_branch
                    /\ edges[i].status = ACTIVE
                    /\ edges[i].to = NULL)
                   => edges'[i].to = last'.at]_vars

\* C10: a successful merge(B, at = t) advances B.branched_from to the merge time,
\* persists the branch and replaces the registry entry; B.branched_from never
\* decreases and is never earlier than the t stamped on the edges the merge wrote.
C10_BranchedFromAdvances ==
    [][/\ branched_from' >= branched_from
       /\ MergeOkStep =>
              /\ branched_from' > branched_from
              /\ branched_from' >= last'.start
              /\ registry' = branched_from'
              /\ branched_from' >= last'.at]_vars

\* the windows a diff can be asked for
Windows == {w \in (1..MaxNodeTime) \X (1..MaxNodeTime) : w[1] <= w[2]}

\* the branches under which the diff files at least one modified path
BranchesWithPaths(es, d) == {bn \in BranchNames : ModifiedPaths(es, d, bn) # {}}

\* C11: get_conflicts returns exactly the modified paths present both in the
\* modified-path set of B and in that of its parent, and nothing whenever fewer than
\* two branches have modified paths.
C11_ConflictsAreIntersection ==
    \A w \in Windows :
        LET d == DiffInit(BranchB, w[1], w[2])
        IN  ~DiffFails(edges, d) =>
                /\ GetConflicts(edges, d)
                       = {p \in ModifiedPaths(edges, d, BranchB) :
                              p \in ModifiedPaths(edges, d, default_branch)}
                /\ Cardinality(BranchesWithPaths(edges, d)) < 2
                       => GetConflicts(edges, d) = {}

\* a window in which both branches have modified paths, some but not all in common
C11_Witness ==
    \E w \in Windows :
        LET d == DiffInit(BranchB, w[1], w[2])
        IN  /\ ~DiffFails(edges, d)
            /\ GetConflicts(edges, d) # {}
            /\ ModifiedPaths(edges, d, BranchB) # ModifiedPaths(edges, d, default_branch)

\* C12: the conflict set between B and its parent is the same whether the diff is
\* computed relative to B or relative to the parent, over the same window.
C12_ConflictsSymmetric ==
    \A w \in Windows :
        LET dB == DiffInit(BranchB, w[1], w[2])
            dParent == DiffInit(default_branch, w[1], w[2])
        IN  (~DiffFails(edges, dB) /\ ~DiffFails(edges, dParent))
                => GetConflicts(edges, dB) = GetConflicts(edges, dParent)

\* C13: for a diff built with branch_only = true, get_modified_paths has no key and no
\* path for a branch other than B and get_conflicts is empty, whatever was changed on
\* the parent in the window.
C13_BranchOnlyIgnoresParent ==
    \A w \in Windows :
        LET d == DiffBranchOnly(BranchB, w[1], w[2])
        IN  ~DiffFails(edges, d) =>
                /\ BranchesWithPaths(edges, d) \subseteq {BranchB}
                /\ ModifiedPaths(edges, d, default_branch) = {}
                /\ GetConflicts(edges, d) = {}

\* a window in which the parent changed a path that B changed too, and the
\* branch_only diff still reports B's paths
C13_Witness ==
    \E w \in Windows :
        /\ ~DiffFails(edges, DiffInit(BranchB, w[1], w[2]))
        /\ GetConflicts(edges, DiffInit(BranchB, w[1], w[2])) # {}
        /\ ModifiedPaths(edges, DiffBranchOnly(BranchB, w[1], w[2]), BranchB) # {}

\* an edge on branch b has its `from` or its `to` inside (t1, t2]
EdgeInWindow(es, b, t1, t2) ==
    \E i \in Ids(es) :
        /\ es[i].branch = b
        /\ \/ (t1 < es[i].from /\ es[i].from <= t2)
           \/ (es[i].to # NULL /\ t1 < es[i].to /\ es[i].to <= t2)

\* the diff has neither an entry filed under branch b nor a modified path
ReportsNoChange(es, d, b) == ~BranchInResults(es, d, b) /\ ~HasChanges(es, d)

\* C14: diff(B, t1, t2) reports no change if and only if no edge on B has its `from`
\* or its `to` inside the interval (t1, t2].
C14_NoChangeIffNoEdgeInWindow ==
    \A w \in Windows :
        LET d == DiffBranchOnly(BranchB, w[1], w[2])
        IN  ~DiffFails(edges, d) =>
                (ReportsNoChange(edges, d, BranchB)
                     <=> ~EdgeInWindow(edges, BranchB, w[1], w[2]))

\* the IS_PART_OF edges the node query of the diff returns
NodeCandidates(es, d) ==
    {i \in Ids(es) : /\ es[i].label = IS_PART_OF
                     /\ es[i].branch \in d.branch_names
                     /\ (es[i].from >= d.diff_from
                            \/ (es[i].to # NULL /\ es[i].to <= d.diff_from))}

NodeFiled(es, d, action) ==
    {i \in NodeCandidates(es, d) : /\ ~(es[i].to # NULL /\ es[i].to < d.diff_to)
                                   /\ NodeActionOf(es, i) = action}

ClaimedAttrAction(d, node_action, e) ==
    IF node_action = ADDED /\ e.from >= d.diff_from /\ e.status = ACTIVE
    THEN ADDED
    ELSE IF e.from >= d.diff_from /\ e.status = DELETED
    THEN REMOVED
    ELSE UPDATED

\* C16: an attribute change is ADDED iff its node is ADDED in the same branch's change
\* set and the property edge has from >= diff_from and status ACTIVE; otherwise it is
\* REMOVED iff the property edge has from >= diff_from and status DELETED; in every
\* other case it is UPDATED. The property edge is any of those the diff returned for
\* the attribute on the branch.
C16_AttributeAction ==
    \A w \in Windows :
        LET d == DiffInit(BranchB, w[1], w[2])
        IN  ~DiffFails(edges, d) =>
                \A bn \in d.branch_names :
                    HasAttrEntry(edges, d, bn) =>
                        \A n \in NChoices(edges, d, bn), r1 \in R1Choices(edges, d, bn) :
                            \E r2 \in AttrQueryR2(edges, d, bn) :
                                AttrActionOf(edges, d, NodeActionOf(edges, n), r1)
                                    = ClaimedAttrAction(d, NodeActionOf(edges, n), edges[r2])

\* the node was added or removed on branch bn from t1 on: an IS_PART_OF edge of the
\* branch starts or ends at or after t1
NodeAddedOrRemoved(es, bn, t1) ==
    \E i \in Ids(es) : /\ es[i].label = IS_PART_OF /\ es[i].branch = bn
                       /\ (es[i].from >= t1 \/ es[i].to >= t1)

\* an attribute property was changed on branch bn in the window and still stands at
\* its end
PropertyChanged(es, bn, t1, t2) ==
    \E i \in Ids(es) : /\ es[i].label \in PropLabels /\ es[i].branch = bn
                       /\ t1 <= es[i].from /\ es[i].from <= t2
                       /\ (es[i].to = NULL \/ es[i].to >= t2)

\* nothing happened on branch bn from t1 on: no edge of the branch starts or ends
\* at or after t1
NoChangeOfAnyKind(es, bn, t1) ==
    \A i \in Ids(es) :
        es[i].branch = bn => (es[i].from < t1 /\ (es[i].to = NULL \/ es[i].to < t1))

\* C17: a node neither added nor removed in the window, with a changed attribute
\* property, is in the change set of the branch that made the change with action
\* UPDATED; a node with no change of any kind on a branch is not in that branch's
\* change set.
C17_UpdatedNodes ==
    \A w \in Windows :
        LET d == DiffInit(BranchB, w[1], w[2])
        IN  ~DiffFails(edges, d) =>
                \A bn \in d.branch_names :
                    /\ (/\ ~NodeAddedOrRemoved(edges, bn, w[1])
                        /\ PropertyChanged(edges, bn, w[1], w[2]))
                           => /\ BranchInResults(edges, d, bn)
                              /\ \A n \in NChoices(edges, d, bn) :
                                     NodeActionOf(edges, n) = UPDATED
                    /\ NoChangeOfAnyKind(edges, bn, w[1])
                           => ~BranchInResults(edges, d, bn)

\* the edges a step appended to the store
Appended == {edges'[i] : i \in (Len(edges) + 1)..Len(edges')}

\* C18: every property change merge replays onto the default branch, of an attribute
\* or of a relationship, appends an edge with status DELETED when the change is
\* REMOVED and ACTIVE when it is ADDED or UPDATED.
C18_ReplayedPropertyStatus ==
    [][MergeOkStep =>
        LET d == DiffInit(last'.branch, NULL, NULL)
            c == last'.choice
            rc == last'.rel_choice
        IN  /\ \A pt \in PropLabels :
                   (HasAttrEntry(edges, d, d.branch) /\ ChoiceR2(c, pt) # 0) =>
                       \E e \in Appended :
                           /\ e.label = pt /\ e.src = Attr1
                           /\ e.dst = edges[ChoiceR2(c, pt)].dst
                           /\ e.status = StatusOfAction(
                                             PropActionOf(edges, d, c, ChoiceR2(c, pt)))
            /\ rc.prop # 0 =>
                   \E e \in Appended :
                       /\ e.label = edges[rc.prop].label /\ e.src = Rel1
                       /\ e.dst = edges[rc.prop].dst
                       /\ e.status = StatusOfAction(
                                         RelPropActionOf(edges, d, rc, rc.prop))]_vars

\* C19: every edge merge(B, at = t) appends is on the default branch with from = t
\* and no `to`, the IS_PART_OF edge of an ADDED node included, and every edge the
\* merge closes gets to = t.
C19_MergeStampsAt ==
    [][MergeOkStep =>
        /\ \A e \in Appended :
               e.branch = default_branch /\ e.from = last'.at /\ e.to = NULL
        /\ \A i \in Ids(edges) :
               edges'[i].to # edges[i].to => edges'[i].to = last'.at]_vars

\* the edges the last merge appended, in the order of its writes
MergeWritten == SubSeq(edges, last.before + 1, Len(edges))

\* the last operation was a merge that issued writes
MergeWrote == last.op = "merge" /\ last.outcome \in {"ok", "backend failure"}

HasSources(p) == procs[p].pc \in {"write", "close", "rebase", "done"}

CountBranches(Pick(_)) == Cardinality({i \in DOMAIN branch_nodes : Pick(branch_nodes[i])})
IsDefaultBranch(b) == b.is_default
IsGlobalBranch(b) == b.is_global

C23_DiffMemoized ==
    diff.state = "ready" =>
        /\ diff.node_queries <= 1
        /\ diff.rel_queries <= 1
        /\ diff.call # "new" => diff.ret = diff.first[diff.call]

\* two edges between the same vertices with the same label
SameTriple(e1, e2) == e1.src = e2.src /\ e1.dst = e2.dst /\ e1.label = e2.label

VisibleProps(es, b, t) ==
    {i \in Ids(es) : es[i].src = Attr1 /\ es[i].label \in PropLabels
                     /\ Visible(GetBranch(b, FALSE), t, es[i])}

VisibleOfAttr(es, b, t) ==
    VisibleProps(es, b, t) \cup VisibleIds(es, GetBranch(b, FALSE), t, HAS_ATTRIBUTE, Node1)

\* a step of delete(at) on branch b that found the attribute
DeleteStep == last'.op = "delete" /\ last' # last /\ last'.outcome = "ok"

GivenFrom == IF diff.state = "error" THEN diff.diff_from ELSE diff.args[1]
GivenTo == IF diff.state = "error" THEN diff.diff_to ELSE diff.args[2]
DiffBranch == IF diff.state = "error" THEN diff.branch ELSE diff.d.branch
EffectiveTo == IF GivenTo # NULL THEN GivenTo ELSE diff.built_at

\* C26: constructing a diff raises when diff_from is omitted on the default branch and
\* when diff_to is earlier than diff_from; an omitted diff_from on another branch
\* becomes the branch's branched_from, and diff_from = diff_to is accepted
C26_DiffConstructorErrors ==
    diff.state # "none" =>
        /\ (GivenFrom = NULL /\ DiffBranch = default_branch) => diff.state = "error"
        /\ (GivenFrom # NULL /\ EffectiveTo < GivenFrom) => diff.state = "error"
        /\ (GivenFrom = NULL /\ DiffBranch # default_branch) =>
               IF EffectiveTo < diff.branched_from
               THEN diff.state = "error"
               ELSE diff.state = "ready" /\ diff.d.diff_from = diff.branched_from
        /\ (GivenFrom # NULL /\ EffectiveTo >= GivenFrom) =>
               /\ diff.state = "ready"
               /\ diff.d.diff_from = GivenFrom
               /\ diff.d.diff_to = EffectiveTo

\* a diff on the branch with diff_from omitted was built from branched_from,
\* and its window ends where it starts
C26_Witness ==
    /\ diff.state = "ready"
    /\ DiffBranch = BranchB
    /\ GivenFrom = NULL
    /\ diff.d.diff_from = diff.branched_from
    /\ diff.d.diff_to = diff.d.diff_from

\* a step of merge called on the default branch
MergeOfDefaultStep == last'.op = "merge" /\ last' # last /\ last'.branch = default_branch

\* C27: merge called on the default branch always raises, writes no edge and changes
\* no branched_from, whether or not the branch has changes
C27_MergeOfDefaultFails ==
    [][MergeOfDefaultStep =>
        /\ last'.outcome = "error"
        /\ edges' = edges
        /\ branched_from' = branched_from
        /\ registry' = registry
    ]_vars

\* the default branch was changed after the branch was created, and its merge raised
C27_Witness ==
    /\ last.op = "merge" /\ last.branch = default_branch /\ last.outcome = "error"
    /\ BranchExists(BranchB)
    /\ \E i \in Ids(edges) : edges[i].branch = default_branch /\ edges[i].from > branched_from

\* the branches made by create_branch: neither the default nor the global one
CreatedBranches ==
    {i \in DOMAIN branch_nodes : ~branch_nodes[i].is_default /\ ~branch_nodes[i].is_global}

\* C28: after first-time initialization and any number of create_branch calls exactly
\* one branch is the default one, and every branch made by create_branch is not the
\* default, has hierarchy_level 2 and has the default branch as its origin_branch
C28_OneDefaultBranch ==
    (\E p \in Callers : procs[p].pc \in {"load", "done"} /\ procs[p].first_time) =>
        /\ CountBranches(IsDefaultBranch) = 1
        /\ \A i \in CreatedBranches :
               /\ branch_nodes[i].hierarchy_level = 2
               /\ \E d \in DOMAIN branch_nodes :
                      /\ branch_nodes[d].is_default
                      /\ branch_nodes[i].origin_branch = branch_nodes[d].name

LogicalChange(row) ==
    [branch |-> row.path.branch, nodes |-> {row.sn, row.dn}, rel_name |-> row.path.name]

\* C30: of the rows of a relationship diff query that map to the same logical change
\* (same branch, same unordered pair of endpoints, same relationship name, whichever
\* way the path was traversed) exactly one is emitted, one of the highest branch score
C30_OneResultPerLogicalChange ==
    q.pc = "emitted" =>
        \A i \in DOMAIN q.results :
            LET same == {j \in DOMAIN q.results :
                            LogicalChange(q.results[j]) = LogicalChange(q.results[i])}
            IN  /\ Cardinality(same \cap q.emitted) = 1
                /\ \A e \in same \cap q.emitted, j \in same :
                       RelRowScore(q.results[j]) <= RelRowScore(q.results[e])

\* C31: get_root_node returns the Root node when it finds exactly one; finding none it
\* fails unless initialize is set, and then it runs the first-time initialization once
\* and returns the Root node created; finding more than one it fails with the
\* corruption error and creates nothing
C31_GetRootNode ==
    /\ \A p \in Callers :
           /\ procs[p].pc \in {"load", "done"} =>
                  /\ procs[p].found = 1
                  /\ roots = 1
                  /\ procs[p].first_time => procs[p].initialize
           /\ procs[p].pc = "failed" =>
                  \/ procs[p].reason = "not initialized"
                         /\ procs[p].found = 0 /\ ~procs[p].initialize
                  \/ procs[p].reason = "more than 1 root node found"
                         /\ procs[p].found > 1
           /\ procs[p].pc \in {"root", "default", "global", "rest"} =>
                  procs[p].found = 0 /\ procs[p].initialize
    /\ Cardinality({p \in Callers : procs[p].pc \in {"default", "global", "rest"}
                                       \/ (procs[p].pc # "idle" /\ procs[p].first_time)}) <= 1
    /\ roots > 1 =>
           /\ Len(branch_nodes) = 2
           /\ \A p \in Callers : procs[p].pc \in {"idle", "check", "failed"}

\* on an empty database one caller was refused, the other initialized it and got the
\* Root node it created
C31_Witness ==
    \E p, r \in Callers :
        /\ procs[p].pc = "failed" /\ procs[p].reason = "not initialized"
        /\ procs[r].pc = "done" /\ procs[r].first_time /\ procs[r].found = 1
        /\ roots = 1

\* C40: get_query_filter_relationships returns one filter per alias of rel_labels, in
\* the order of rel_labels, whether include_outside_parentheses is set or not
C40_OneFilterPerAlias ==
    q.rel_filters.state = "done" =>
        /\ Len(q.rel_filters.filters) = Len(RelLabels)
        /\ \A i \in DOMAIN q.rel_filters.filters :
               i \in DOMAIN RelLabels /\ q.rel_filters.filters[i].rel = RelLabels[i]

\* C38: computing a diff never fails in the property pass: a property edge that
\* survives the skip has an attribute entry under its branch, also when HAS_ATTRIBUTE
\* edges were skipped because they were closed before diff_to
C38_PropertyPassFindsAttribute ==
    \A b \in BranchNames, w \in Windows :
        BranchExists(b) => ~DiffFails(edges, DiffInit(b, w[1], w[2]))


\* C37: every id that merge passes to the closing step is the id of an edge that
\* exists, never null (0 stands for None)
C37_MergeClosesExistingEdges ==
    (last.op = "merge" /\ last.outcome # "error") =>
        \A i \in last.closes : i # NULL /\ i \in 1..last.before


\* C36: a merge replays the diff its validation found conflict-free: it never closes an
\* edge that was written on the default branch after its validation
C36_MergeKeepsLaterDefaultWrites ==
    \A p \in Callers :
        procs[p].pc \in {"write", "close"} =>
            \A i \in procs[p].closes \cap Ids(edges) :
                ~(edges[i].branch = default_branch /\ edges[i].from >= procs[p].validated_at)


\* a call of save() on the whole attribute that returned
SaveAllStep == last' # last /\ last'.op = "save_attr" /\ last'.outcome = "ok"

ReadWhereCreated ==
    /\ q.pc = "node"
    /\ q.read # NotReadYet
    /\ \/ q.read.branch = q.branch
       \/ q.branch = default_branch /\ branched_from # NULL /\ branched_from > q.created_at

\* C32: an attribute created without a value reads back as the schema's default_value,
\* or as null when there is none; created without flags it reads back visible and not
\* protected; on the branch of its creation and on a branch created from it afterwards
C32_DefaultsReadBack ==
    ReadWhereCreated =>
        /\ q.read.attrs # {}
        /\ \A attr \in q.read.attrs :
              /\ q.data.value = NoneV => attr.value = q.default_value
              /\ q.data.is_visible = NoFlag => attr.is_visible = "true"
              /\ q.data.is_protected = NoFlag => attr.is_protected = "false"

\* a node created on the default branch with nothing given, under a schema with a
\* default, was read on a branch created afterwards
C32_Witness ==
    /\ ReadWhereCreated
    /\ q.branch = default_branch /\ q.read.branch = BranchB
    /\ q.data = [value |-> NoneV, is_visible |-> NoFlag, is_protected |-> NoFlag]
    /\ q.default_value = Str("d0")
    /\ q.read.attrs = {[value |-> Str("d0"), is_visible |-> "true", is_protected |-> "false"]}


AuthPaths == {"password", "api_key", "jwt_refresh", "jwt_access"}

\* C39: for an account whose status is not active, password login, API-key validation,
\* refresh-token validation and JWT access-token validation all fail with an
\* authorization error
C39_InactiveAccountIsRefused ==
    (last.op \in AuthPaths /\ last.status # "active" /\ last.outcome # "NodeNotFoundError")
        => last.outcome = "AuthorizationError"


\* C33: filters without offset and limit returns every node of the kind that matches
\* the filters, accumulated over all pages, whatever the total count
C33_FiltersReturnsEveryNode ==
    last.op = "filters" => last.nodes = Matching(last.count)


\* without retry_on_failure the call makes one POST and an unreachable server raises
OnePostWithoutRetry ==
    (q.pc = "done" /\ ~q.retry_on_failure) =>
        /\ q.attempts = 1
        /\ q.seen = "unreachable" => q.outcome = "ServerNotReacheableError"

\* with retry_on_failure an unreachable server never ends the call, and a new attempt
\* follows the sleep
RetryAfterUnreachable ==
    /\ [](q.retry_on_failure => q.outcome # "ServerNotReacheableError")
    /\ [][(q.pc = "attempt" /\ q.retry_on_failure /\ q.server = "unreachable"
              /\ q'.attempts # q.attempts) => q'.pc = "sleep"]_vars
    /\ (q.pc = "sleep" ~> q.pc = "attempt")

\* once the server stays reachable the call ends, and a call that ends on a reachable
\* server returns the data
ReturnsOnceReachable ==
    /\ (q.retry_on_failure /\ <>[](q.server = "ok")) => <>(q.pc = "done")
    /\ [](q.pc = "done" /\ q.seen = "ok" => q.outcome = "data")

\* the POST that met the 401 or 403 was the last one
DeniedEndsTheCall ==
    [][(q.pc = "attempt" /\ q.server = "denied" /\ q'.attempts # q.attempts
           /\ q.raise_for_error) => q'.pc = "done"]_vars

\* C34 as stated: a 401 or 403 raises AuthenticationError in both modes, whatever
\* raise_for_error is
C34_ExecuteGraphqlRetry ==
    /\ []OnePostWithoutRetry
    /\ RetryAfterUnreachable
    /\ ReturnsOnceReachable
    /\ DeniedEndsTheCall
    /\ [](q.pc = "done" /\ q.seen = "denied" => q.outcome = "AuthenticationError")

\* C34: one POST without retry_on_failure, with ServerNotReacheableError handed on;
\* with it a new attempt after each unreachable server, and the data once the server
\* stays reachable; a 401 or 403 raises AuthenticationError with no further attempt
\* in both modes when raise_for_error is set, as it is by default
C34_ExecuteGraphqlRetryRaising ==
    /\ []OnePostWithoutRetry
    /\ RetryAfterUnreachable
    /\ ReturnsOnceReachable
    /\ DeniedEndsTheCall
    /\ [](q.pc = "done" /\ q.seen = "denied" /\ q.raise_for_error
             => q.outcome = "AuthenticationError")

\* a call with retry_on_failure returned the data after more than one attempt
C34_Witness ==
    /\ q.pc = "done" /\ q.retry_on_failure /\ q.raise_for_error
    /\ q.attempts > 1 /\ q.outcome = "data"

====
